---- MODULE Spec2Model ----
(***************************************************************************)
(* Aliya health assistant: the conversation state machine, the persistence *)
(* calls it makes and the reminder scheduler of index.js                   *)
(* (src/unnamed/part_002), with the text-generation calls of cohere.js.    *)
(*                                                                         *)
(* Texts are sequences of one-character strings, so that toLowerCase,     *)
(* trim, parseInt, split and the Date conversions are computed as the code *)
(* computes them.                                                          *)
(***************************************************************************)
EXTENDS Integers, Sequences, FiniteSets, Bags, TLC

VARIABLES
    userStates,  \* userStates (Map): user -> reference of its session object, 0 when absent
    heap,        \* the session objects: reference -> {state, data, step}
    handlers,    \* in-flight client.on('message') invocations, each suspended at an await
    db,          \* the tables behind pool.query
    jobs,        \* bag of the jobs armed with schedule.scheduleJob
    clock,       \* new Date(), in hours since 1970-01-01T00:00Z
    ticks,       \* how often the clock advanced
    ev,          \* the step just taken: which handler did what to whom
    sc,          \* the environment of this run: the commands a user sends in it
    quiz,        \* an assessment answer set handed to calculateHealthScore
    quizScore,   \* the score calculateHealthScore returned for quiz
    edits        \* how many answers of quiz were replaced

vars == <<userStates, heap, handlers, db, jobs, clock, ticks, ev, sc, quiz, quizScore, edits>>

-----------------------------------------------------------------------------
(* Bounds of the exploration *)

MaxHandlers == 2
MaxRecords == 1
MaxJobs == 2
MaxTicks == 1
MaxEdits == 1

-----------------------------------------------------------------------------
(* JavaScript strings *)

UpperCase == <<"A","B","C","D","E","F","G","H","I","J","K","L","M",
               "N","O","P","Q","R","S","T","U","V","W","X","Y","Z">>
LowerCase == <<"a","b","c","d","e","f","g","h","i","j","k","l","m",
               "n","o","p","q","r","s","t","u","v","w","x","y","z">>
Digits == <<"0","1","2","3","4","5","6","7","8","9">>

\* a value no text equals: the result of reading a missing property
Undefined == <<"undefined value">>
\* null, as returned by the validators and by the cohere.js functions on failure
Null == <<"null value">>

IsIn(c, seq) == \E i \in 1..Len(seq) : seq[i] = c
IndexOf(c, seq) == CHOOSE i \in 1..Len(seq) : seq[i] = c

toLowerCase(s) ==
    [i \in 1..Len(s) |-> IF IsIn(s[i], UpperCase) THEN LowerCase[IndexOf(s[i], UpperCase)] ELSE s[i]]

IsSpace(c) == c = " "

RECURSIVE trimStart(_)
trimStart(s) == IF s # <<>> /\ IsSpace(Head(s)) THEN trimStart(Tail(s)) ELSE s

RECURSIVE trimEnd(_)
trimEnd(s) == IF s # <<>> /\ IsSpace(s[Len(s)]) THEN trimEnd(SubSeq(s, 1, Len(s) - 1)) ELSE s

trim(s) == trimEnd(trimStart(s))

startsWith(s, p) == Len(s) >= Len(p) /\ SubSeq(s, 1, Len(p)) = p

\* s.slice(n): the text from index n (0-based) on
slice(s, n) == SubSeq(s, n + 1, Len(s))

\* s.split(sep) for a one-character separator
RECURSIVE splitFrom(_, _, _)
splitFrom(s, sep, cur) ==
    IF s = <<>> THEN <<cur>>
    ELSE IF Head(s) = sep THEN <<cur>> \o splitFrom(Tail(s), sep, <<>>)
    ELSE splitFrom(Tail(s), sep, Append(cur, Head(s)))

split(s, sep) == splitFrom(s, sep, <<>>)

\* the longest prefix of decimal digits
RECURSIVE digitPrefix(_)
digitPrefix(s) ==
    IF s # <<>> /\ IsIn(Head(s), Digits) THEN <<Head(s)>> \o digitPrefix(Tail(s)) ELSE <<>>

RECURSIVE digitsValue(_, _)
digitsValue(ds, acc) ==
    IF ds = <<>> THEN acc
    ELSE digitsValue(Tail(ds), 10 * acc + (IndexOf(Head(ds), Digits) - 1))

\* parseInt(s): leading white space skipped, an optional sign, then the digits up to the
\* first other character; NaN when there is no digit.  A number is [nan, val].
NaN == [nan |-> TRUE, val |-> 0]
Num(n) == [nan |-> FALSE, val |-> n]

parseInt(s) ==
    LET t == trimStart(s)
        neg == t # <<>> /\ Head(t) = "-"
        u == IF t # <<>> /\ Head(t) \in {"-", "+"} THEN Tail(t) ELSE t
        ds == digitPrefix(u)
    IN IF ds = <<>> THEN NaN
       ELSE Num(IF neg THEN 0 - digitsValue(ds, 0) ELSE digitsValue(ds, 0))

isNaN(x) == x.nan
\* comparisons of numbers: every comparison with NaN is false
Lt(x, k) == ~x.nan /\ x.val < k
Gt(x, k) == ~x.nan /\ x.val > k
Le_Strict(x, k) == ~x.nan /\ x.val < k
Le(x, k) == ~x.nan /\ x.val <= k
Ge_Strict(x, k) == ~x.nan /\ x.val > k
Ge(x, k) == ~x.nan /\ x.val >= k
Eq(x, k) == ~x.nan /\ x.val = k

\* Number(s) for the two-digit fields of a time such as 08:00
Number(s) == IF s # <<>> /\ digitPrefix(s) = s THEN Num(digitsValue(s, 0)) ELSE NaN

-----------------------------------------------------------------------------
(* Dates: new Date("YYYY-MM-DD") is midnight UTC of that day; instants are  *)
(* hours since 1970-01-01T00:00Z and the process runs in UTC.               *)

IsLeap(y) == (y % 4 = 0 /\ y % 100 # 0) \/ y % 400 = 0

DaysInMonth(y, m) ==
    IF m = 2 THEN (IF IsLeap(y) THEN 29 ELSE 28)
    ELSE IF m \in {4, 6, 9, 11} THEN 30 ELSE 31

\* days from 1970-01-01 to y-m-d (proleptic Gregorian)
DaysFromCivil(y, m, d) ==
    LET yy == IF m <= 2 THEN y - 1 ELSE y
        era == yy \div 400
        yoe == yy - era * 400
        mp == (m + 9) % 12
        doy == (153 * mp + 2) \div 5 + d - 1
        doe == yoe * 365 + yoe \div 4 - yoe \div 100 + doy
    IN era * 146097 + doe - 719468

CivilFromDays(z0) ==
    LET z == z0 + 719468
        era == z \div 146097
        doe == z - era * 146097
        yoe == (doe - doe \div 1460 + doe \div 36524 - doe \div 146096) \div 365
        doy == doe - (365 * yoe + yoe \div 4 - yoe \div 100)
        mp == (5 * doy + 2) \div 153
        d == doy - (153 * mp + 2) \div 5 + 1
        m == IF mp < 10 THEN mp + 3 ELSE mp - 9
        y == yoe + era * 400 + (IF m <= 2 THEN 1 ELSE 0)
    IN [y |-> y, m |-> m, d |-> d]

HoursPerDay == 24

\* new Date(s).getTime() in hours, NaN for a text that is no YYYY-MM-DD date
newDate(s) ==
    IF Len(s) = 10 /\ s[5] = "-" /\ s[8] = "-"
       /\ \A i \in {1, 2, 3, 4, 6, 7, 9, 10} : IsIn(s[i], Digits)
    THEN LET y == digitsValue(SubSeq(s, 1, 4), 0)
             m == digitsValue(SubSeq(s, 6, 7), 0)
             d == digitsValue(SubSeq(s, 9, 10), 0)
         IN IF m \in 1..12 /\ d \in 1..DaysInMonth(y, m)
            THEN Num(DaysFromCivil(y, m, d) * HoursPerDay)
            ELSE NaN
    ELSE NaN

RECURSIVE padDigits(_, _)
padDigits(n, width) ==
    IF width = 0 THEN <<>> ELSE Append(padDigits(n \div 10, width - 1), Digits[(n % 10) + 1])

\* date.toISOString().split('T')[0]
toISODate(hours) ==
    LET c == CivilFromDays(hours \div HoursPerDay)
    IN padDigits(c.y, 4) \o <<"-">> \o padDigits(c.m, 2) \o <<"-">> \o padDigits(c.d, 2)

-----------------------------------------------------------------------------
(* Texts *)

\* the string literals of index.js
S ==
    [ help |-> <<"/","h","e","l","p">>,
      cancel |-> <<"/","c","a","n","c","e","l">>,
      start |-> <<"/","s","t","a","r","t">>,
      diagnose |-> <<"/","d","i","a","g","n","o","s","e">>,
      assessment |-> <<"/","a","s","s","e","s","s","m","e","n","t">>,
      fitness |-> <<"/","f","i","t","n","e","s","s">>,
      meal |-> <<"/","m","e","a","l">>,
      cycle |-> <<"/","c","y","c","l","e">>,
      medication |-> <<"/","m","e","d","i","c","a","t","i","o","n">>,
      ask |-> <<"/","a","s","k">>,
      accept |-> <<"a","c","c","e","p","t">>,
      deny |-> <<"d","e","n","y">>,
      now |-> <<"n","o","w">>,
      later |-> <<"l","a","t","e","r">>,
      never |-> <<"n","e","v","e","r">>,
      yes |-> <<"y","e","s">>,
      no |-> <<"n","o">>,
      add |-> <<"a","d","d">>,
      update |-> <<"u","p","d","a","t","e">>,
      male |-> <<"m","a","l","e">>,
      female |-> <<"f","e","m","a","l","e">>,
      other |-> <<"o","t","h","e","r">>,
      regular |-> <<"r","e","g","u","l","a","r">>,
      irregular |-> <<"i","r","r","e","g","u","l","a","r">>,
      none |-> <<"n","o","n","e">>,
      mild |-> <<"m","i","l","d">>,
      moderate |-> <<"m","o","d","e","r","a","t","e">>,
      severe |-> <<"s","e","v","e","r","e">>,
      excellent |-> <<"e","x","c","e","l","l","e","n","t">>,
      good |-> <<"g","o","o","d">>,
      fair |-> <<"f","a","i","r">>,
      poor |-> <<"p","o","o","r">>,
      often |-> <<"o","f","t","e","n">>,
      sometimes |-> <<"s","o","m","e","t","i","m","e","s">>,
      rarely |-> <<"r","a","r","e","l","y">>,
      weight_loss |-> <<"w","e","i","g","h","t"," ","l","o","s","s">>,
      muscle_gain |-> <<"m","u","s","c","l","e"," ","g","a","i","n">>,
      general_fitness |-> <<"g","e","n","e","r","a","l"," ","f","i","t","n","e","s","s">>,
      general_health |-> <<"g","e","n","e","r","a","l"," ","h","e","a","l","t","h">>,
      beginner |-> <<"b","e","g","i","n","n","e","r">>,
      intermediate |-> <<"i","n","t","e","r","m","e","d","i","a","t","e">>,
      advanced |-> <<"a","d","v","a","n","c","e","d">>,
      vegetarian |-> <<"v","e","g","e","t","a","r","i","a","n">>,
      vegan |-> <<"v","e","g","a","n">>,
      omnivore |-> <<"o","m","n","i","v","o","r","e">>,
      daily |-> <<"d","a","i","l","y">>,
      mon |-> <<"m","o","n">>,
      tue |-> <<"t","u","e">>,
      wed |-> <<"w","e","d">>,
      thu |-> <<"t","h","u">>,
      fri |-> <<"f","r","i">>,
      sat |-> <<"s","a","t">>,
      sun |-> <<"s","u","n">>,
      star |-> <<"*">> ]

\* message bodies a user sends (message.body), as typed
In ==
    [ Jane |-> <<"J","a","n","e">>,
      JanePadded |-> <<" ","J","a","n","e"," ">>,
      abc |-> <<"a","b","c">>,
      empty |-> <<>>,
      n29 |-> <<"2","9">>,
      Female |-> <<"F","e","m","a","l","e">>,
      male |-> <<"m","a","l","e">>,
      n165 |-> <<"1","6","5">>,
      n60 |-> <<"6","0">>,
      Boston |-> <<"B","o","s","t","o","n">>,
      none |-> <<"n","o","n","e">>,
      regular |-> <<"r","e","g","u","l","a","r">>,
      Fever |-> <<"F","e","v","e","r">>,
      moderate |-> <<"m","o","d","e","r","a","t","e">>,
      Severe |-> <<"S","e","v","e","r","e">>,
      days3 |-> <<"3"," ","d","a","y","s">>,
      good |-> <<"g","o","o","d">>,
      rarely |-> <<"r","a","r","e","l","y">>,
      often |-> <<"o","f","t","e","n">>,
      sometimes |-> <<"s","o","m","e","t","i","m","e","s">>,
      never |-> <<"n","e","v","e","r">>,
      excellent |-> <<"e","x","c","e","l","l","e","n","t">>,
      poor |-> <<"p","o","o","r">>,
      fair |-> <<"f","a","i","r">>,
      yes |-> <<"y","e","s">>,
      no |-> <<"n","o">>,
      Yes |-> <<"Y","e","s">>,
      n0 |-> <<"0">>,
      n1 |-> <<"1">>,
      n2 |-> <<"2">>,
      n3 |-> <<"3">>,
      n4 |-> <<"4">>,
      n5 |-> <<"5">>,
      n6 |-> <<"6">>,
      n7 |-> <<"7">>,
      n8 |-> <<"8">>,
      n9 |-> <<"9">>,
      n10 |-> <<"1","0">>,
      n11 |-> <<"1","1">>,
      n12 |-> <<"1","2">>,
      n14 |-> <<"1","4">>,
      n15 |-> <<"1","5">>,
      n20 |-> <<"2","0">>,
      n21 |-> <<"2","1">>,
      n24 |-> <<"2","4">>,
      n25 |-> <<"2","5">>,
      n100 |-> <<"1","0","0">>,
      n101 |-> <<"1","0","1">>,
      n28 |-> <<"2","8">>,
      n30 |-> <<"3","0">>,
      weight_loss |-> <<"w","e","i","g","h","t"," ","l","o","s","s">>,
      beginner |-> <<"b","e","g","i","n","n","e","r">>,
      vegan |-> <<"v","e","g","a","n">>,
      d0401 |-> <<"2","0","2","5","-","0","4","-","0","1">>,
      d0320 |-> <<"2","0","2","5","-","0","3","-","2","0">>,
      d0601 |-> <<"2","0","2","5","-","0","6","-","0","1">>,
      Ibuprofen |-> <<"I","b","u","p","r","o","f","e","n">>,
      Aspirin |-> <<"A","s","p","i","r","i","n">>,
      mg200 |-> <<"2","0","0"," ","m","g">>,
      t0800 |-> <<"0","8",":","0","0">>,
      t2130 |-> <<"2","1",":","3","0">>,
      t2500 |-> <<"2","5",":","0","0">>,
      Daily |-> <<"D","a","i","l","y">>,
      MonWed |-> <<"M","o","n",",","W","e","d">>,
      MonSpaceWed |-> <<"m","o","n",","," ","w","e","d">>,
      funday |-> <<"f","u","n","d","a","y">>,
      help |-> <<"/","h","e","l","p">>,
      cancel |-> <<"/","c","a","n","c","e","l">>,
      start |-> <<"/","s","t","a","r","t">>,
      diagnose |-> <<"/","d","i","a","g","n","o","s","e">>,
      assessment |-> <<"/","a","s","s","e","s","s","m","e","n","t">>,
      fitness |-> <<"/","f","i","t","n","e","s","s">>,
      meal |-> <<"/","m","e","a","l">>,
      cycle |-> <<"/","c","y","c","l","e">>,
      medication |-> <<"/","m","e","d","i","c","a","t","i","o","n">>,
      ask |-> <<"/","a","s","k">>,
      askDiet |-> <<"/","a","s","k"," ","D","i","e","t","?">>,
      accept |-> <<"a","c","c","e","p","t">>,
      deny |-> <<"d","e","n","y">>,
      now |-> <<"n","o","w">>,
      later |-> <<"l","a","t","e","r">>,
      add |-> <<"a","d","d">>,
      update |-> <<"u","p","d","a","t","e">>,
      Cancel |-> <<" ","/","C","a","n","c","e","l">> ]

-----------------------------------------------------------------------------
(* Flow definitions: the step lists with their validators *)

NonEmpty(fl, f) == [flow |-> fl, field |-> f, v |-> "nonempty", lo |-> 0, hi |-> 0, opts |-> {}]
IntIn(fl, f, lo, hi) == [flow |-> fl, field |-> f, v |-> "int", lo |-> lo, hi |-> hi, opts |-> {}]
OneOf(fl, f, opts) == [flow |-> fl, field |-> f, v |-> "enum", lo |-> 0, hi |-> 0, opts |-> opts]
AnyText(fl, f) == [flow |-> fl, field |-> f, v |-> "any", lo |-> 0, hi |-> 0, opts |-> {}]
PastDate(fl, f) == [flow |-> fl, field |-> f, v |-> "date", lo |-> 0, hi |-> 0, opts |-> {}]
TimeOfDay(fl, f) == [flow |-> fl, field |-> f, v |-> "time", lo |-> 0, hi |-> 0, opts |-> {}]
WeekDays(fl, f) == [flow |-> fl, field |-> f, v |-> "days", lo |-> 0, hi |-> 0, opts |-> {}]

Frequency == {S.often, S.sometimes, S.rarely, S.never}
YesNo == {S.yes, S.no}

ONBOARDING_STEPS ==
    << NonEmpty("onboarding", "name"),
       IntIn("onboarding", "age", 1, 120),
       OneOf("onboarding", "sex", {S.male, S.female, S.other}),
       IntIn("onboarding", "height_cm", 50, 300),
       IntIn("onboarding", "weight_kg", 20, 500),
       NonEmpty("onboarding", "location"),
       AnyText("onboarding", "medical_history"),
       AnyText("onboarding", "chronic_conditions"),
       AnyText("onboarding", "allergies"),
       AnyText("onboarding", "medications") >>

MENSTRUAL_CYCLE_STEP ==
    OneOf("onboarding", "menstrual_cycle_type", {S.regular, S.irregular, S.none})

DIAGNOSIS_STEPS ==
    << NonEmpty("diagnosing", "symptoms"),
       OneOf("diagnosing", "severity", {S.mild, S.moderate, S.severe}),
       NonEmpty("diagnosing", "duration") >>

ASSESSMENT_STEPS ==
    << OneOf("assessing", "overall_health", {S.excellent, S.good, S.fair, S.poor}),
       OneOf("assessing", "fatigue_after_sleep", Frequency),
       IntIn("assessing", "fruit_veggie_servings", 0, 20),
       OneOf("assessing", "sugary_drinks_snacks", YesNo),
       IntIn("assessing", "exercise_days", 0, 7),
       OneOf("assessing", "breaks_from_sitting", YesNo),
       IntIn("assessing", "sleep_hours", 0, 24),
       OneOf("assessing", "wake_refreshed", Frequency),
       OneOf("assessing", "stress_anxiety", Frequency),
       OneOf("assessing", "relaxation_techniques", YesNo),
       OneOf("assessing", "chronic_conditions", YesNo),
       OneOf("assessing", "family_history", YesNo),
       OneOf("assessing", "smoking_vaping", YesNo),
       IntIn("assessing", "alcohol_drinks", 0, 100),
       OneOf("assessing", "headaches_body_aches", Frequency),
       OneOf("assessing", "weight_changes", YesNo) >>

FITNESS_STEPS ==
    << OneOf("fitness", "fitness_goal", {S.weight_loss, S.muscle_gain, S.general_fitness}),
       OneOf("fitness", "activity_level", {S.beginner, S.intermediate, S.advanced}),
       IntIn("fitness", "available_days", 0, 7),
       IntIn("fitness", "available_minutes", 10, 180) >>

MEAL_STEPS ==
    << OneOf("meal", "dietary_preference", {S.vegetarian, S.vegan, S.omnivore}),
       OneOf("meal", "health_goal", {S.weight_loss, S.muscle_gain, S.general_health}),
       IntIn("meal", "meals_per_day", 2, 5) >>

CYCLE_STEPS ==
    << PastDate("cycle_tracking", "last_period_date"),
       IntIn("cycle_tracking", "average_cycle_length", 21, 35) >>

MEDICATION_STEPS ==
    << NonEmpty("medication_setup", "medication_name"),
       NonEmpty("medication_setup", "dosage"),
       TimeOfDay("medication_setup", "schedule_time"),
       WeekDays("medication_setup", "days_of_week") >>

validDays == {S.mon, S.tue, S.wed, S.thu, S.fri, S.sat, S.sun}

\* /^([0-1]?[0-9]|2[0-3]):[0-5][0-9]$/
timeRegexTest(input) ==
    LET parts == split(input, ":")
        hh == parts[1]
        mm == parts[2]
    IN /\ Len(parts) = 2
       /\ \/ Len(hh) = 1 /\ IsIn(hh[1], Digits)
          \/ Len(hh) = 2 /\ hh[1] \in {"0", "1"} /\ IsIn(hh[2], Digits)
          \/ Len(hh) = 2 /\ hh[1] = "2" /\ hh[2] \in {"0", "1", "2", "3"}
       /\ Len(mm) = 2 /\ mm[1] \in {"0", "1", "2", "3", "4", "5"} /\ IsIn(mm[2], Digits)

\* the text a step replies with when it rejects an input
ErrorText(step) == <<"error", step.flow, step.field>>
PromptText(step) == <<"prompt", step.flow, step.field>>

\* step.validate(input): Null when accepted, else the step's error text; today is new Date()
validate(step, input, today) ==
    LET ok ==
        CASE step.v = "nonempty" -> trim(input) # <<>>
          [] step.v = "int" ->
                LET n == parseInt(input)
                IN ~(isNaN(n) \/ Lt(n, step.lo) \/ Gt(n, step.hi))
          [] step.v = "enum" -> toLowerCase(input) \in step.opts
          [] step.v = "any" -> TRUE
          [] step.v = "date" ->
                LET date == newDate(input)
                IN ~(isNaN(date) \/ Gt(date, today))
          [] step.v = "time" -> timeRegexTest(input)
          [] step.v = "days" ->
                \/ toLowerCase(input) = S.daily
                \/ LET days == split(input, ",")
                   IN \A i \in 1..Len(days) : toLowerCase(trim(days[i])) \in validDays
    IN IF ok THEN Null ELSE ErrorText(step)

-----------------------------------------------------------------------------
(* Session data: an object's properties, field name -> value *)

EmptyData == <<>>
Has(data, f) == f \in DOMAIN data
Get(data, f) == IF f \in DOMAIN data THEN data[f] ELSE Undefined
Put(data, f, val) == (f :> val) @@ data

-----------------------------------------------------------------------------
(* Health score *)

calculateHealthScore(data) ==
    LET oh == toLowerCase(data["overall_health"])
        p1 == CASE oh = S.excellent -> 10 [] oh = S.good -> 7 [] oh = S.fair -> 4 [] OTHER -> 0
        fa == toLowerCase(data["fatigue_after_sleep"])
        p2 == CASE fa = S.never -> 6 [] fa = S.rarely -> 4 [] fa = S.sometimes -> 2 [] OTHER -> 0
        servings == parseInt(data["fruit_veggie_servings"])
        p3 == IF Ge(servings, 5) THEN 8 ELSE IF Ge(servings, 3) THEN 5
              ELSE IF Ge(servings, 1) THEN 2 ELSE 0
        p4 == IF toLowerCase(data["sugary_drinks_snacks"]) = S.no THEN 6 ELSE 0
        exerciseDays == parseInt(data["exercise_days"])
        p5 == IF Ge(exerciseDays, 5) THEN 8 ELSE IF Ge(exerciseDays, 3) THEN 5
              ELSE IF Ge(exerciseDays, 1) THEN 2 ELSE 0
        p6 == IF toLowerCase(data["breaks_from_sitting"]) = S.yes THEN 6 ELSE 0
        sleepHours == parseInt(data["sleep_hours"])
        p7 == IF Ge(sleepHours, 7) /\ Le(sleepHours, 9) THEN 8
              ELSE IF (Ge(sleepHours, 5) /\ Lt(sleepHours, 7)) \/ (Gt(sleepHours, 9) /\ Le(sleepHours, 11))
                   THEN 4 ELSE 0
        wr == toLowerCase(data["wake_refreshed"])
        p8 == CASE wr = S.often -> 6 [] wr = S.sometimes -> 4 [] wr = S.rarely -> 2 [] OTHER -> 0
        sa == toLowerCase(data["stress_anxiety"])
        p9 == CASE sa = S.never -> 6 [] sa = S.rarely -> 4 [] sa = S.sometimes -> 2 [] OTHER -> 0
        p10 == IF toLowerCase(data["relaxation_techniques"]) = S.yes THEN 6 ELSE 0
        p11 == IF toLowerCase(data["chronic_conditions"]) = S.no THEN 6 ELSE 0
        p12 == IF toLowerCase(data["family_history"]) = S.no THEN 5 ELSE 0
        p13 == IF toLowerCase(data["smoking_vaping"]) = S.no THEN 6 ELSE 0
        alcoholDrinks == parseInt(data["alcohol_drinks"])
        p14 == IF Eq(alcoholDrinks, 0) THEN 6 ELSE IF Le(alcoholDrinks, 7) THEN 4
               ELSE IF Le(alcoholDrinks, 14) THEN 2 ELSE 0
        ha == toLowerCase(data["headaches_body_aches"])
        p15 == CASE ha = S.never -> 6 [] ha = S.rarely -> 4 [] ha = S.sometimes -> 2 [] OTHER -> 0
        p16 == IF toLowerCase(data["weight_changes"]) = S.no THEN 5 ELSE 0
    IN p1 + p2 + p3 + p4 + p5 + p6 + p7 + p8 + p9 + p10 + p11 + p12 + p13 + p14 + p15 + p16


-----------------------------------------------------------------------------
(* Session store *)

UserList == <<"u1", "u2">>
Users == {UserList[i] : i \in 1..Len(UserList)}

\* one reference per user and per in-flight handler, and one being allocated
Refs == 1..(Len(UserList) + MaxHandlers + 1)
NoRef == 0

\* an object without a step property: its step is read in no branch that holds such an object
NoStep == -1

Session(state, data, step) == [state |-> state, data |-> data, step |-> step]
Initial == Session("initial", EmptyData, NoStep)
Free == Session("free", EmptyData, NoStep)

\* userStates.get(userId) || { state: 'initial', data: {} }
SessionOf(map, hp, u) == IF map[u] = NoRef THEN Initial ELSE hp[map[u]]

StepFlows == {"onboarding", "diagnosing", "assessing", "fitness", "meal",
              "cycle_tracking", "medication_setup"}

\* StepsOf without the extension of onboarding
StepsOf_NeverExtended(flow, data) ==
    CASE flow = "onboarding" -> ONBOARDING_STEPS
      [] flow = "diagnosing" -> DIAGNOSIS_STEPS
      [] flow = "assessing" -> ASSESSMENT_STEPS
      [] flow = "fitness" -> FITNESS_STEPS
      [] flow = "meal" -> MEAL_STEPS
      [] flow = "cycle_tracking" -> CYCLE_STEPS
      [] flow = "medication_setup" -> MEDICATION_STEPS

\* the step list of a flow; onboarding gains the cycle step once sex is female
StepsOf(flow, data) ==
    CASE flow = "onboarding" ->
            IF Get(data, "sex") = S.female THEN Append(ONBOARDING_STEPS, MENSTRUAL_CYCLE_STEP)
            ELSE ONBOARDING_STEPS
      [] flow = "diagnosing" -> DIAGNOSIS_STEPS
      [] flow = "assessing" -> ASSESSMENT_STEPS
      [] flow = "fitness" -> FITNESS_STEPS
      [] flow = "meal" -> MEAL_STEPS
      [] flow = "cycle_tracking" -> CYCLE_STEPS
      [] flow = "medication_setup" -> MEDICATION_STEPS

-----------------------------------------------------------------------------
(* A handler invocation and the machine state it works on.                  *)
(* m = [map, heap, db, jobs, h, used]: the store, the tables, the armed     *)
(* jobs, this handler's locals and the references other handlers hold.      *)

NoHandler ==
    [pc |-> "none", user |-> "", body |-> <<>>, msg |-> <<>>, us |-> NoRef,
     cmd |-> <<>>, flow |-> "", text |-> <<>>, after |-> "", local |-> EmptyData,
     delivered |-> 0, calls |-> 0, fin |-> "none", threw |-> FALSE]

Obj(m) == m.heap[m.h.us]

FreeRef(m) ==
    CHOOSE r \in Refs :
        /\ r \notin m.used /\ r # m.h.us /\ \A u \in Users : m.map[u] # r
        /\ \A q \in Refs :
             (q \notin m.used /\ q # m.h.us /\ \A u \in Users : m.map[u] # q) => r <= q

\* userState = obj (a new object, held by this handler only)
NewLocal(m, obj) ==
    LET r == FreeRef(m)
    IN [m EXCEPT !.heap = [@ EXCEPT ![r] = obj], !.h = [@ EXCEPT !.us = r]]

\* SetMap storing the session under every user
SetMap_Shared(m) == [m EXCEPT !.map = [u \in Users |-> m.h.us]]

\* userStates.set(userId, userState)
SetMap(m) == [m EXCEPT !.map = [@ EXCEPT ![m.h.user] = m.h.us]]

\* userState = obj; userStates.set(userId, userState)
SetNew(m, obj) == SetMap(NewLocal(m, obj))

\* SetData dropping the answers given before
SetData_Alone(m, f, val) ==
    [m EXCEPT !.heap = [@ EXCEPT ![m.h.us] = [@ EXCEPT !.data = Put(EmptyData, f, val)]]]

\* userState.data[f] = val
SetData(m, f, val) ==
    [m EXCEPT !.heap = [@ EXCEPT ![m.h.us] = [@ EXCEPT !.data = Put(@, f, val)]]]

\* SetStep advancing one step too far
SetStep_Skip(m, n) ==
    [m EXCEPT !.heap = [@ EXCEPT ![m.h.us] = [@ EXCEPT !.step = n + 1]]]

\* userState.step = n
SetStep(m, n) == [m EXCEPT !.heap = [@ EXCEPT ![m.h.us] = [@ EXCEPT !.step = n]]]

SetLocal(m, f, val) == [m EXCEPT !.h = [@ EXCEPT !.local = Put(@, f, val)]]

\* suspend at an await
Await(m, pc) == [m EXCEPT !.h = [@ EXCEPT !.pc = pc]]

\* await message.reply(text), and what the code does once the reply is sent
Reply(m, text, after) ==
    [m EXCEPT !.h = [@ EXCEPT !.pc = "reply", !.text = text, !.after = after]]

\* a rejected await inside try: control moves to the catch block's message.reply
Throw(m) ==
    [m EXCEPT !.h = [@ EXCEPT !.pc = "catch", !.text = <<"sorry">>, !.after = "return",
                              !.threw = TRUE]]

-----------------------------------------------------------------------------
(* Reminder scheduler *)

OneShot(u, kind, at, payload) ==
    [user |-> u, kind |-> kind, once |-> TRUE, at |-> at,
     rule |-> [hour |-> NaN, minute |-> NaN, dayOfWeek |-> <<>>], payload |-> payload]
Recurring(u, kind, rule, payload) ==
    [user |-> u, kind |-> kind, once |-> FALSE, at |-> 0, rule |-> rule, payload |-> payload]

\* scheduleJob cancelling the jobs already armed for the same user and kind
scheduleJob_Replace(m, job) ==
    LET kept == {j \in BagToSet(m.jobs) : j.user # job.user \/ j.kind # job.kind}
    IN [m EXCEPT !.jobs = [j \in kept |-> m.jobs[j]] (+) SetToBag({job})]

\* schedule.scheduleJob(spec, callback)
scheduleJob(m, job) == [m EXCEPT !.jobs = @ (+) SetToBag({job})]

\* calculateNextPeriod without the cycle length added
calculateNextPeriod_SameDay(lastPeriodDate, cycleLength) ==
    toISODate(newDate(lastPeriodDate).val)

calculateNextPeriod(lastPeriodDate, cycleLength) ==
    LET lastDate == newDate(lastPeriodDate)
        nextDate == lastDate.val + parseInt(cycleLength).val * HoursPerDay
    IN toISODate(nextDate)

ReminderLeadDays == 3

schedulePeriodReminder_NoGuard(m, predictedDate, today) ==
    LET reminderDate == newDate(predictedDate).val - ReminderLeadDays * HoursPerDay
    IN scheduleJob(m, OneShot(m.h.user, "period", reminderDate, <<predictedDate>>))

schedulePeriodReminder(m, predictedDate, today) ==
    LET reminderDate == newDate(predictedDate).val - ReminderLeadDays * HoursPerDay
    IN IF reminderDate < today THEN m
       ELSE scheduleJob(m, OneShot(m.h.user, "period", reminderDate, <<predictedDate>>))

dayMap(day) ==
    CASE day = S.mon -> <<"1">> [] day = S.tue -> <<"2">> [] day = S.wed -> <<"3">>
      [] day = S.thu -> <<"4">> [] day = S.fri -> <<"5">> [] day = S.sat -> <<"6">>
      [] day = S.sun -> <<"0">> [] OTHER -> Undefined

\* array.join(','): undefined elements are rendered as the empty text
RECURSIVE join(_)
join(arr) ==
    IF arr = <<>> THEN <<>>
    ELSE LET first == IF Head(arr) = Undefined THEN <<>> ELSE Head(arr)
         IN IF Len(arr) = 1 THEN first ELSE first \o <<",">> \o join(Tail(arr))

\* scheduleMedicationReminder cancelling the jobs armed for the same medication
scheduleMedicationReminder_Deduplicating(m, data) ==
    LET time == split(data["schedule_time"], ":")
        hour == Number(time[1])
        minute == Number(time[2])
        dlist == split(data["days_of_week"], ",")
        days == IF toLowerCase(data["days_of_week"]) = S.daily THEN S.star
                ELSE join([i \in 1..Len(dlist) |-> dayMap(toLowerCase(dlist[i]))])
        rule == IF days = S.star THEN [hour |-> hour, minute |-> minute, dayOfWeek |-> S.star]
                ELSE [hour |-> hour, minute |-> minute, dayOfWeek |-> days]
        kept == {j \in BagToSet(m.jobs) :
                    ~(j.user = m.h.user /\ j.kind = "medication"
                        /\ j.payload[1] = data["medication_name"])}
    IN scheduleJob([m EXCEPT !.jobs = [j \in kept |-> m.jobs[j]]],
                   Recurring(m.h.user, "medication", rule,
                             <<data["medication_name"], data["dosage"]>>))

scheduleMedicationReminder(m, data) ==
    LET time == split(data["schedule_time"], ":")
        hour == Number(time[1])
        minute == Number(time[2])
        dlist == split(data["days_of_week"], ",")
        days == IF toLowerCase(data["days_of_week"]) = S.daily THEN S.star
                ELSE join([i \in 1..Len(dlist) |-> dayMap(toLowerCase(dlist[i]))])
        rule == IF days = S.star THEN [hour |-> hour, minute |-> minute, dayOfWeek |-> S.star]
                ELSE [hour |-> hour, minute |-> minute, dayOfWeek |-> days]
    IN scheduleJob(m, Recurring(m.h.user, "medication", rule,
                                <<data["medication_name"], data["dosage"]>>))

FitnessHour == 7
MealHour == 8

scheduleFitnessReminder(m) ==
    scheduleJob(m, Recurring(m.h.user, "fitness",
                             [hour |-> Num(FitnessHour), minute |-> Num(0), dayOfWeek |-> S.star], <<>>))

scheduleMealReminder(m) ==
    scheduleJob(m, Recurring(m.h.user, "meal",
                             [hour |-> Num(MealHour), minute |-> Num(0), dayOfWeek |-> S.star], <<>>))

AssessmentDelayHours == 48
FollowUpDelayDays == 2

scheduleAssessmentReminder(m, today) ==
    scheduleJob(m, OneShot(m.h.user, "assessment", today + AssessmentDelayHours, <<>>))

\* scheduleFollowUpReminder arming whatever the severity
scheduleFollowUpReminder_Always(m, severity, today) ==
    scheduleJob(m, OneShot(m.h.user, "followup", today + FollowUpDelayDays * HoursPerDay, <<>>))

scheduleFollowUpReminder(m, severity, today) ==
    IF toLowerCase(severity) # S.severe THEN m
    ELSE scheduleJob(m, OneShot(m.h.user, "followup", today + FollowUpDelayDays * HoursPerDay, <<>>))


-----------------------------------------------------------------------------
(* Persistence: the tables and the functions over pool.query.  A user's    *)
(* rows are kept per whatsapp id; rows are the column values written.       *)

Tables == {"users", "symptoms", "assessments", "fitness_plans", "meal_plans",
           "menstrual_cycles", "medication_reminders"}

EmptyDb == [t \in Tables |-> [u \in Users |-> <<>>]]

\* a column value: data.f, and null for a missing f where the code writes data.f || null
Column(data, f) == IF Has(data, f) THEN data[f] ELSE Null

Row(data, fields) == [f \in fields |-> Column(data, f)]

ColumnsOf(table) ==
    CASE table = "users" ->
            {"name", "age", "sex", "height_cm", "weight_kg", "location", "medical_history",
             "chronic_conditions", "allergies", "medications", "menstrual_cycle_type"}
      [] table = "symptoms" ->
            {"symptoms", "severity", "duration", "diagnosis", "home_care", "red_flags"}
      [] table = "assessments" ->
            {ASSESSMENT_STEPS[i].field : i \in 1..Len(ASSESSMENT_STEPS)}
              \cup {"score", "analysis", "recommendations"}
      [] table = "fitness_plans" ->
            {"fitness_goal", "activity_level", "available_days", "available_minutes", "fitness_plan"}
      [] table = "meal_plans" ->
            {"dietary_preference", "health_goal", "meals_per_day", "meal_plan"}
      [] table = "menstrual_cycles" ->
            {"last_period_date", "average_cycle_length", "predicted_next_period"}
      [] table = "medication_reminders" ->
            {"medication_name", "dosage", "schedule_time", "days_of_week"}

TableOf(flow) ==
    CASE flow = "onboarding" -> "users"
      [] flow = "diagnosing" -> "symptoms"
      [] flow = "assessing" -> "assessments"
      [] flow = "fitness" -> "fitness_plans"
      [] flow = "meal" -> "meal_plans"
      [] flow = "cycle_tracking" -> "menstrual_cycles"
      [] flow = "medication_setup" -> "medication_reminders"

\* INSERT INTO table ... for the user
Insert(m, table, row) ==
    [m EXCEPT !.db = [@ EXCEPT ![table] = [@ EXCEPT ![m.h.user] = Append(@, row)]]]

\* isUserOnboarded finding a profile for everybody
isUserOnboarded_Always(m) == TRUE

\* SELECT id FROM users WHERE whatsapp_id = $1: rows.length > 0
isUserOnboarded(m) == Len(m.db["users"][m.h.user]) > 0

\* the first statement of every save and get function but saveUserProfile
UserFound(m) == Len(m.db["users"][m.h.user]) > 0

saveUserProfile(m, data) == Insert(m, "users", Row(data, ColumnsOf("users")))

\* saveDiagnosis, saveAssessment, saveFitnessPlan, saveMealPlan: one INSERT
saveRecord(m, table, data) == Insert(m, table, Row(data, ColumnsOf(table)))

\* saveMenstrualCycle, second statement: is there a cycle row of the user
CycleExists(m) == Len(m.db["menstrual_cycles"][m.h.user]) > 0

\* saveMenstrualCycle, last statement: UPDATE ... WHERE user_id, or INSERT
writeMenstrualCycle(m, data, existing) ==
    LET row == Row(data, ColumnsOf("menstrual_cycles"))
        rows == m.db["menstrual_cycles"][m.h.user]
    IN IF existing
       THEN [m EXCEPT !.db = [@ EXCEPT !["menstrual_cycles"] =
                                [@ EXCEPT ![m.h.user] = [i \in 1..Len(rows) |-> row]]]]
       ELSE Insert(m, "menstrual_cycles", row)

\* saveMedicationReminder, second statement: is there a row with this medication_name
MedicationExists(m, data) ==
    \E i \in 1..Len(m.db["medication_reminders"][m.h.user]) :
        m.db["medication_reminders"][m.h.user][i]["medication_name"] = Column(data, "medication_name")

\* saveMedicationReminder, last statement: UPDATE ... WHERE user_id AND medication_name, or INSERT
writeMedicationReminder(m, data, existing) ==
    LET row == Row(data, ColumnsOf("medication_reminders"))
        rows == m.db["medication_reminders"][m.h.user]
    IN IF existing
       THEN [m EXCEPT !.db = [@ EXCEPT !["medication_reminders"] =
                [@ EXCEPT ![m.h.user] =
                    [i \in 1..Len(rows) |->
                        IF rows[i]["medication_name"] = row["medication_name"] THEN row ELSE rows[i]]]]]
       ELSE Insert(m, "medication_reminders", row)

\* Latest returning the row written first
Latest_First(rows) == IF Len(rows) = 0 THEN <<>> ELSE <<rows[1]>>

\* ORDER BY created_at DESC LIMIT 1: the rows of the result, the row written last if any
Latest(rows) == IF Len(rows) = 0 THEN <<>> ELSE <<rows[Len(rows)]>>

getLatestFitnessPlan(tables, u) ==
    IF Len(tables["users"][u]) = 0 THEN <<>> ELSE Latest(tables["fitness_plans"][u])
getLatestMealPlan(tables, u) ==
    IF Len(tables["users"][u]) = 0 THEN <<>> ELSE Latest(tables["meal_plans"][u])


-----------------------------------------------------------------------------
(* client.on('message'): the code between two awaits is one step.           *)
(* today is new Date() at that step.                                        *)

Generated == <<"generated text">>

FlowOfCommand(msg) ==
    CASE msg = S.diagnose -> "diagnosing"
      [] msg = S.assessment -> "assessing"
      [] msg = S.fitness -> "fitness"
      [] msg = S.meal -> "meal"

LaunchCommands == {S.start, S.diagnose, S.assessment, S.fitness, S.meal, S.cycle, S.medication}

\* the branch taken once all steps are answered, up to its first await
Finalize(m, flow, today) ==
    LET m0 == [m EXCEPT !.h = [@ EXCEPT !.flow = flow, !.fin = "running"]]
        data == Obj(m0).data
    IN CASE flow \in {"onboarding", "medication_setup"} -> Await(m0, "save")
         [] flow \in {"diagnosing", "fitness", "meal"} -> Await(m0, "textgen")
         [] flow = "assessing" ->
                LET score == calculateHealthScore(data)
                IN Await(SetLocal(SetData(m0, "score", score), "score", score), "textgen")
         [] flow = "cycle_tracking" ->
                LET predictedNextPeriod ==
                        calculateNextPeriod(data["last_period_date"], data["average_cycle_length"])
                IN Await(SetLocal(SetData(m0, "predicted_next_period", predictedNextPeriod),
                                  "predictedNextPeriod", predictedNextPeriod), "save")

\* FlowStep with the answer stored before it is validated
FlowStep_StoreFirst(m, flow, today) ==
    LET st == Obj(m)
        currentStep == st.step
        steps == StepsOf(flow, st.data)
    IN IF currentStep >= Len(steps) THEN Finalize(m, flow, today)
       ELSE LET step == steps[currentStep + 1]
                validationError == validate(step, m.h.msg, today)
                m1 == SetMap(SetStep(SetData(m, step.field, m.h.msg), currentStep + 1))
            IN IF validationError # Null THEN Reply(m1, validationError, "return")
               ELSE IF Obj(m1).step < Len(steps)
               THEN Reply(m1, PromptText(steps[Obj(m1).step + 1]), "return")
               ELSE Finalize(m1, flow, today)

\* the branch of a step-based flow: finalize, reject, or store and advance
FlowStep(m, flow, today) ==
    LET st == Obj(m)
        currentStep == st.step
        steps == StepsOf(flow, st.data)
    IN IF currentStep >= Len(steps) THEN Finalize(m, flow, today)
       ELSE LET step == steps[currentStep + 1]
                validationError == validate(step, m.h.msg, today)
            IN IF validationError # Null THEN Reply(m, validationError, "return")
               ELSE LET m1 == SetMap(SetStep(SetData(m, step.field, m.h.msg), currentStep + 1))
                    IN IF Obj(m1).step < Len(steps)
                       THEN Reply(m1, PromptText(steps[Obj(m1).step + 1]), "return")
                       ELSE Finalize(m1, flow, today)

\* TermsResponse taking every message but deny for an acceptance
TermsResponse_AcceptAnything(m) ==
    IF m.h.msg = S.deny THEN Reply(SetNew(m, Initial), <<"goodbye">>, "return")
    ELSE Reply(SetNew(m, Session("onboarding", EmptyData, 0)),
               PromptText(ONBOARDING_STEPS[1]), "return")

\* the awaiting_tnc_response branch
TermsResponse(m) ==
    IF m.h.msg = S.accept
    THEN Reply(SetNew(m, Session("onboarding", EmptyData, 0)),
               PromptText(ONBOARDING_STEPS[1]), "return")
    ELSE IF m.h.msg = S.deny THEN Reply(SetNew(m, Initial), <<"goodbye">>, "return")
    ELSE Reply(m, <<"reprompt", "awaiting_tnc_response">>, "return")

\* Fallback taking an unrecognised message for the start command
Fallback_StartsTerms(m) ==
    Reply(SetNew(m, Session("awaiting_tnc_response", EmptyData, NoStep)), <<"fallback">>, "return")

\* no state branch is taken: the reply for an unrecognised input
Fallback(m) == Reply(m, <<"fallback">>, "return")

\* AssessmentChoice arming the nudge for never as for later
AssessmentChoice_NudgeAnyway(m, today) ==
    IF m.h.msg = S.now
    THEN Reply(SetNew(m, Session("assessing", EmptyData, 0)),
               PromptText(ASSESSMENT_STEPS[1]), "return")
    ELSE IF m.h.msg \in {S.later, S.never}
    THEN Reply(SetNew(scheduleAssessmentReminder(m, today), Initial),
               <<"remind_later">>, "return")
    ELSE Reply(m, <<"reprompt", "awaiting_assessment_choice">>, "return")

\* the awaiting_assessment_choice branch
AssessmentChoice(m, today) ==
    IF m.h.msg = S.now
    THEN Reply(SetNew(m, Session("assessing", EmptyData, 0)),
               PromptText(ASSESSMENT_STEPS[1]), "return")
    ELSE IF m.h.msg = S.later
    THEN Reply(SetNew(scheduleAssessmentReminder(m, today), Initial),
               <<"remind_later">>, "return")
    ELSE IF m.h.msg = S.never THEN Reply(SetNew(m, Initial), <<"declined">>, "return")
    ELSE Reply(m, <<"reprompt", "awaiting_assessment_choice">>, "return")

\* CycleUpdateChoice entering the flow on every reply but no
CycleUpdateChoice_YesByDefault(m) ==
    IF m.h.msg = S.no THEN Reply(SetNew(m, Initial), <<"cycle_unchanged">>, "return")
    ELSE Reply(SetNew(m, Session("cycle_tracking", EmptyData, 0)),
               PromptText(CYCLE_STEPS[1]), "return")

\* the cycle_update_choice branch
CycleUpdateChoice(m) ==
    IF m.h.msg = S.yes
    THEN Reply(SetNew(m, Session("cycle_tracking", EmptyData, 0)),
               PromptText(CYCLE_STEPS[1]), "return")
    ELSE IF m.h.msg = S.no THEN Reply(SetNew(m, Initial), <<"cycle_unchanged">>, "return")
    ELSE Reply(m, <<"reprompt", "cycle_update_choice">>, "return")

\* the medication_choice branch
MedicationChoice(m) ==
    IF m.h.msg = S.add
    THEN Reply(SetNew(m, Session("medication_setup", EmptyData, 0)),
               PromptText(MEDICATION_STEPS[1]), "return")
    ELSE IF m.h.msg = S.update
    THEN Reply(SetNew(m, Session("medication_select_update", Obj(m).data, NoStep)),
               <<"which_medication">>, "return")
    ELSE Reply(m, <<"reprompt", "medication_choice">>, "return")

\* MedicationSelectUpdate carrying the listed reminders into the setup session
MedicationSelectUpdate_KeepData(m) ==
    LET n == parseInt(m.h.msg)
        selectedIndex == IF isNaN(n) THEN NaN ELSE Num(n.val - 1)
        reminders == Obj(m).data["existingReminders"]
    IN IF isNaN(selectedIndex) \/ Lt(selectedIndex, 0) \/ Ge(selectedIndex, Len(reminders))
       THEN Reply(m, <<"reprompt", "medication_select_update">>, "return")
       ELSE LET name == reminders[selectedIndex.val + 1]["medication_name"]
                m1 == SetData(m, "selectedMedication", name)
            IN Reply(SetNew(m1, Session("medication_setup",
                                        Put(Obj(m1).data, "medication_name", name), 1)),
                     PromptText(MEDICATION_STEPS[2]), "return")

\* MedicationSelectUpdate starting the setup at the name step
MedicationSelectUpdate_FromNameStep(m) ==
    LET n == parseInt(m.h.msg)
        selectedIndex == IF isNaN(n) THEN NaN ELSE Num(n.val - 1)
        reminders == Obj(m).data["existingReminders"]
    IN IF isNaN(selectedIndex) \/ Lt(selectedIndex, 0) \/ Ge(selectedIndex, Len(reminders))
       THEN Reply(m, <<"reprompt", "medication_select_update">>, "return")
       ELSE LET name == reminders[selectedIndex.val + 1]["medication_name"]
            IN Reply(SetNew(SetData(m, "selectedMedication", name),
                            Session("medication_setup", EmptyData, 0)),
                     PromptText(MEDICATION_STEPS[1]), "return")

\* the medication_select_update branch
MedicationSelectUpdate(m) ==
    LET n == parseInt(m.h.msg)
        selectedIndex == IF isNaN(n) THEN NaN ELSE Num(n.val - 1)
        reminders == Obj(m).data["existingReminders"]
    IN IF isNaN(selectedIndex) \/ Lt(selectedIndex, 0) \/ Ge(selectedIndex, Len(reminders))
       THEN Reply(m, <<"reprompt", "medication_select_update">>, "return")
       ELSE LET name == reminders[selectedIndex.val + 1]["medication_name"]
            IN Reply(SetNew(SetData(m, "selectedMedication", name),
                            Session("medication_setup",
                                    Put(EmptyData, "medication_name", name), 1)),
                     PromptText(MEDICATION_STEPS[2]), "return")

\* the branches on userState.state
StateDispatch(m, today) ==
    LET st == Obj(m)
    IN CASE st.state = "awaiting_tnc_response" -> TermsResponse(m)
         [] st.state \in StepFlows -> FlowStep(m, st.state, today)
         [] st.state = "awaiting_assessment_choice" -> AssessmentChoice(m, today)
         [] st.state = "cycle_update_choice" -> CycleUpdateChoice(m)
         [] st.state = "medication_choice" -> MedicationChoice(m)
         [] st.state = "medication_select_update" -> MedicationSelectUpdate(m)
         [] OTHER -> Fallback(m)

\* CancelCommand confirming the cancellation without resetting the session
CancelCommand_KeepSession(m) ==
    IF Obj(m).state = "initial" THEN Reply(m, <<"nothing_to_cancel">>, "return")
    ELSE Reply(m, <<"cancelled">>, "return")

\* the /cancel branch
CancelCommand(m) ==
    IF Obj(m).state = "initial" THEN Reply(m, <<"nothing_to_cancel">>, "return")
    ELSE Reply(SetNew(m, Initial), <<"cancelled">>, "return")

\* the handler from its start to its first await
Dispatch(m, today) ==
    LET st == Obj(m)
        msg == m.h.msg
    IN IF msg = S.help THEN Reply(m, <<"help">>, "return")
       ELSE IF msg = S.cancel THEN CancelCommand(m)
       ELSE IF msg \in LaunchCommands
       THEN Await([m EXCEPT !.h = [@ EXCEPT !.cmd = msg]], "isUserOnboarded")
       ELSE IF startsWith(msg, S.ask)
       THEN Await([m EXCEPT !.h = [@ EXCEPT !.cmd = S.ask]], "isUserOnboarded")
       ELSE StateDispatch(m, today)

\* StartCommand opening the terms for a user who is onboarded already
StartCommand_Restart(m, isOnboarded) ==
    Reply(SetNew(m, Session("awaiting_tnc_response", EmptyData, NoStep)),
          <<"introduction">>, "return")

\* the /start branch after await isUserOnboarded(userId)
StartCommand(m, isOnboarded) ==
    IF isOnboarded THEN Reply(SetNew(m, Initial), <<"already_onboarded">>, "return")
    ELSE Reply(SetNew(m, Session("awaiting_tnc_response", EmptyData, NoStep)),
               <<"introduction">>, "return")

\* after await isUserOnboarded(userId), up to the next await
AfterOnboardedCheck(m, isOnboarded) ==
    LET cmd == m.h.cmd
    IN IF cmd = S.start THEN StartCommand(m, isOnboarded)
       ELSE IF ~isOnboarded THEN Reply(m, <<"onboard_first">>, "return")
       ELSE IF cmd = S.cycle THEN Await(m, "getUserDetails")
       ELSE IF cmd = S.medication THEN Await(m, "getMedicationReminders")
       ELSE IF cmd = S.ask
       THEN LET question == trim(slice(m.h.body, 4))
            IN IF question = <<>> THEN Reply(m, <<"ask_usage">>, "return")
               ELSE Await(m, "answerHealthQuestion")
       ELSE Reply(SetNew(m, Session(FlowOfCommand(cmd), EmptyData, 0)),
                  PromptText(StepsOf(FlowOfCommand(cmd), EmptyData)[1]), "return")

\* after await getUserDetails(userId): rows is the result of the SELECT on users
AfterUserDetails(m, rows) ==
    IF Len(rows) = 0 THEN Reply(m, <<"profile_error">>, "return")
    ELSE LET userDetails == rows[1]
         IN IF toLowerCase(userDetails["sex"]) # S.female
            THEN Reply(m, <<"cycle_ineligible">>, "return")
            ELSE IF userDetails["menstrual_cycle_type"] = Null THEN Throw(m)
            ELSE IF toLowerCase(userDetails["menstrual_cycle_type"]) = S.none
            THEN Reply(m, <<"cycle_ineligible">>, "return")
            ELSE Await(m, "getMenstrualCycle")

\* getMenstrualCycle: the user's cycle rows, none when the user is not found
getMenstrualCycle(m) == IF UserFound(m) THEN m.db["menstrual_cycles"][m.h.user] ELSE <<>>

\* after await getMenstrualCycle(userId): cycleData is the latest row, if any
AfterMenstrualCycle(m, rows) ==
    IF Len(rows) > 0 THEN Reply(m, <<"cycle_details">>, "cycle_update_choice")
    ELSE Reply(SetNew(m, Session("cycle_tracking", EmptyData, 0)),
               PromptText(CYCLE_STEPS[1]), "return")

\* getMedicationReminders: the user's reminder rows, none when the user is not found
getMedicationReminders(m) ==
    IF UserFound(m) THEN m.db["medication_reminders"][m.h.user] ELSE <<>>

\* after await getMedicationReminders(userId)
AfterMedicationReminders(m, reminders) ==
    IF Len(reminders) > 0
    THEN Reply(SetLocal(m, "reminders", reminders), <<"medication_list">>, "medication_choice")
    ELSE Reply(SetNew(m, Session("medication_setup", EmptyData, 0)),
               PromptText(MEDICATION_STEPS[1]), "return")

\* AfterAnswer returning without a reply when there is no answer
AfterAnswer_Silent(m, answer) ==
    IF answer = Null THEN [m EXCEPT !.h = [@ EXCEPT !.pc = "done"]]
    ELSE Reply(m, <<"answer">>, "return")

\* after await answerHealthQuestion(question)
AfterAnswer(m, answer) ==
    IF answer = Null THEN Reply(m, <<"apology_answer">>, "return")
    ELSE Reply(m, <<"answer">>, "return")

\* after the await of the text-generation call of a finalization
\* AfterTextGen going on to the save when no text was generated
AfterTextGen_SaveAnyway(m, result) ==
    LET flow == m.h.flow
    IN CASE flow = "diagnosing" ->
               Await(SetData(SetData(SetData(m, "diagnosis", result), "home_care", result),
                             "red_flags", result), "save")
         [] flow = "assessing" ->
               Await(SetData(SetData(m, "analysis", result), "recommendations", result), "save")
         [] flow = "fitness" -> Await(SetData(m, "fitness_plan", result), "save")
         [] flow = "meal" -> Await(SetData(m, "meal_plan", result), "save")

AfterTextGen(m, result) ==
    LET flow == m.h.flow
    IN IF result = Null
       THEN Reply([m EXCEPT !.h = [@ EXCEPT !.fin = "nogen"]], <<"apology_gen", flow>>, "reset")
       ELSE CASE flow = "diagnosing" ->
                   Await(SetData(SetData(SetData(m, "diagnosis", result), "home_care", result),
                                 "red_flags", result), "save")
              [] flow = "assessing" ->
                   Await(SetData(SetData(m, "analysis", result), "recommendations", result), "save")
              [] flow = "fitness" -> Await(SetData(m, "fitness_plan", result), "save")
              [] flow = "meal" -> Await(SetData(m, "meal_plan", result), "save")

\* the reminder a flow arms once its record is saved
ArmReminder(m, flow, today) ==
    CASE flow = "diagnosing" -> scheduleFollowUpReminder(m, Obj(m).data["severity"], today)
      [] flow = "fitness" -> scheduleFitnessReminder(m)
      [] flow = "meal" -> scheduleMealReminder(m)
      [] flow = "cycle_tracking" -> schedulePeriodReminder(m, m.h.local["predictedNextPeriod"], today)
      [] flow = "medication_setup" -> scheduleMedicationReminder(m, Obj(m).data)
      [] OTHER -> m

Saved(m) == [m EXCEPT !.h = [@ EXCEPT !.fin = "saved"]]
NotFound(m) ==
    Reply([m EXCEPT !.h = [@ EXCEPT !.fin = "notfound"]], <<"apology_save", m.h.flow>>, "reset")

\* after a save that returned true: arm, then reply with the summary, then reset
AfterSaved(m, today) ==
    IF m.h.flow = "onboarding"
    THEN Reply(SetNew(Saved(m), Session("awaiting_assessment_choice", EmptyData, NoStep)),
               <<"onboarding_complete">>, "return")
    ELSE Reply(ArmReminder(Saved(m), m.h.flow, today), <<"summary", m.h.flow>>, "reset")

\* the save call of a finalization resolves (saveUserProfile, saveDiagnosis, saveAssessment,
\* saveFitnessPlan, saveMealPlan), or an upsert has looked up the user and the existing row
AfterSave(m, today) ==
    LET flow == m.h.flow
        data == Obj(m).data
    IN IF flow = "onboarding" THEN AfterSaved(saveUserProfile(m, data), today)
       ELSE IF ~UserFound(m) THEN NotFound(m)
       ELSE IF flow = "cycle_tracking" THEN Await(SetLocal(m, "existing", CycleExists(m)), "write")
       ELSE IF flow = "medication_setup"
       THEN Await(SetLocal(m, "existing", MedicationExists(m, data)), "write")
       ELSE AfterSaved(saveRecord(m, TableOf(flow), data), today)

\* the UPDATE or INSERT of saveMenstrualCycle / saveMedicationReminder resolves
AfterWrite(m, today) ==
    LET data == Obj(m).data
    IN IF m.h.flow = "cycle_tracking"
       THEN AfterSaved(writeMenstrualCycle(m, data, m.h.local["existing"]), today)
       ELSE AfterSaved(writeMedicationReminder(m, data, m.h.local["existing"]), today)

Finish(m) == [m EXCEPT !.h = [@ EXCEPT !.pc = "done"]]

\* AfterReply without the statements that follow the reply
AfterReply_NoReset(m) ==
    Finish([m EXCEPT !.h = [@ EXCEPT !.delivered = @ + 1, !.calls = @ + 1,
                                     !.fin = IF @ = "saved" THEN "ok" ELSE @]])

\* message.reply resolved: the statements after it, to the handler's return
AfterReply(m) ==
    LET m1 == [m EXCEPT !.h = [@ EXCEPT !.delivered = @ + 1, !.calls = @ + 1,
                                         !.fin = IF @ = "saved" THEN "ok" ELSE @]]
    IN CASE m.h.after = "return" -> Finish(m1)
         [] m.h.after = "reset" -> Finish(SetNew(m1, Initial))
         [] m.h.after = "cycle_update_choice" ->
                Finish(SetNew(m1, Session("cycle_update_choice", EmptyData, NoStep)))
         [] m.h.after = "medication_choice" ->
                Finish(SetNew(m1, Session("medication_choice",
                                          Put(EmptyData, "existingReminders", m.h.local["reminders"]),
                                          NoStep)))

\* message.reply rejected inside try
ReplyFailed(m) == Throw([m EXCEPT !.h = [@ EXCEPT !.calls = @ + 1]])

\* the catch block's message.reply resolved or rejected: the handler ends either way
AfterCatch(m, ok) ==
    Finish([m EXCEPT !.h = [@ EXCEPT !.delivered = IF ok THEN @ + 1 ELSE @, !.calls = @ + 1]])


-----------------------------------------------------------------------------
(* The running program: in-flight handlers in arrival order.                *)

\* the machine state handler i works on
Machine(i) ==
    [map |-> userStates, heap |-> heap, db |-> db, jobs |-> jobs, h |-> handlers[i],
     used |-> {handlers[j].us : j \in DOMAIN handlers \ {i}}]

\* lines 815-818: a message arrives and the handler reads its session
Arrive(u, body) ==
    LET h0 == [NoHandler EXCEPT !.pc = "start", !.user = u, !.body = body,
                                !.msg = trim(toLowerCase(body))]
        m0 == [map |-> userStates, heap |-> heap, db |-> db, jobs |-> jobs, h |-> h0,
               used |-> {handlers[j].us : j \in DOMAIN handlers}]
    IN IF userStates[u] = NoRef THEN NewLocal(m0, Initial)
       ELSE [m0 EXCEPT !.h = [@ EXCEPT !.us = userStates[u]]]

\* the references in use, map entries first, then handlers in arrival order
Roots(map, hs) ==
    [k \in 1..(Len(UserList) + Len(hs)) |->
        IF k <= Len(UserList) THEN map[UserList[k]] ELSE hs[k - Len(UserList)].us]

\* objects are identified by the order in which they are first referenced
Rank(roots, r) ==
    LET first == CHOOSE k \in DOMAIN roots :
                    roots[k] = r /\ \A j \in 1..(k - 1) : roots[j] # r
    IN Cardinality({roots[j] : j \in 1..first} \ {NoRef})

\* a message sent by a job's callback: the addressee, the template, the values filled in
NoMessage == [to |-> "", kind |-> "none", args |-> <<>>]
Message(job, args) == [to |-> job.user, kind |-> job.kind, args |-> args]

\* the callback of a job, run at firing time: the message it sends, none where the plan
\* it looks up is not found.  The fitness and meal callbacks read the tables; the others
\* fill in the values their closure captured when the job was armed.
Callback(job, tables) ==
    CASE job.kind = "fitness" ->
            LET plan == getLatestFitnessPlan(tables, job.user)
            IN IF Len(plan) = 0 THEN NoMessage ELSE Message(job, <<plan[1]["fitness_goal"]>>)
      [] job.kind = "meal" ->
            LET plan == getLatestMealPlan(tables, job.user)
            IN IF Len(plan) = 0 THEN NoMessage
               ELSE Message(job, <<plan[1]["dietary_preference"], plan[1]["health_goal"]>>)
      [] OTHER -> Message(job, job.payload)

\* a one-shot job whose callback failed staying armed, to be tried again
Invoked_Retry(js, job, ok) == IF job.once /\ ok THEN js (-) SetToBag({job}) ELSE js

\* the armed jobs once the callback of a fired job has run: the scheduler drops a one-shot
\* job as it invokes it and keeps a recurring one; the callback's catch block ends every
\* failure (ok is false) by logging it
Invoked(js, job, ok) == IF job.once THEN js (-) SetToBag({job}) ELSE js

NoJob == OneShot("", "none", 0, <<>>)

NoEvent ==
    [type |-> "init", from |-> "none", before |-> Initial, h |-> NoHandler, sent |-> FALSE,
     armed |-> {}, lost |-> {}, wrote |-> {}, now |-> 0, job |-> NoJob, out |-> NoMessage,
     failed |-> FALSE]

\* one step of handler i ends in machine state m; unreferenced objects are collected
Commit(i, m, type, sent) ==
    LET hs0 == IF i > Len(handlers) THEN Append(handlers, m.h) ELSE [handlers EXCEPT ![i] = m.h]
        hs == SelectSeq(hs0, LAMBDA h : h.pc # "done")
        roots == Roots(m.map, hs)
        live == {roots[k] : k \in DOMAIN roots} \ {NoRef}
        new(r) == IF r = NoRef THEN NoRef ELSE Rank(roots, r)
    IN /\ userStates' = [u \in Users |-> new(m.map[u])]
       /\ heap' = [q \in Refs |->
                     IF \E r \in live : Rank(roots, r) = q
                     THEN m.heap[CHOOSE r \in live : Rank(roots, r) = q]
                     ELSE Free]
       /\ handlers' = [k \in 1..Len(hs) |-> [hs[k] EXCEPT !.us = new(@)]]
       /\ db' = m.db
       /\ jobs' = m.jobs
       /\ ev' = [type |-> type, from |-> IF i > Len(handlers) THEN "start" ELSE handlers[i].pc,
                 before |-> SessionOf(userStates, heap, m.h.user),
                 h |-> [m.h EXCEPT !.us = NoRef], sent |-> sent,
                 armed |-> BagToSet(m.jobs (-) jobs), lost |-> BagToSet(jobs (-) m.jobs),
                 wrote |-> {tu \in Tables \X Users : m.db[tu[1]][tu[2]] # db[tu[1]][tu[2]]},
                 now |-> clock, job |-> NoJob, out |-> NoMessage, failed |-> FALSE]

Waiting(i, pc) == i \in DOMAIN handlers /\ handlers[i].pc = pc


-----------------------------------------------------------------------------
(* The environment: who writes what, and what the collaborators answer.     *)

\* the raw answers a user gives to a step: accepted ones and a rejected one
Answers(step) ==
    LET f == step.field
    IN CASE step.flow = "onboarding" ->
              CASE f = "name" -> {In.Jane, In.JanePadded, In.empty}
                [] f = "age" -> {In.n29, In.abc}
                [] f = "sex" -> {In.Female, In.male}
                [] f = "height_cm" -> {In.n165, In.n12}
                [] f = "weight_kg" -> {In.n60}
                [] f = "location" -> {In.Boston}
                [] f = "menstrual_cycle_type" -> {In.regular, In.abc}
                [] OTHER -> {In.none}
         [] step.flow = "diagnosing" ->
              CASE f = "symptoms" -> {In.Fever, In.empty}
                [] f = "severity" -> {In.moderate, In.Severe, In.abc}
                [] OTHER -> {In.days3}
         [] step.flow = "assessing" ->
              CASE f = "overall_health" -> {In.good, In.abc}
                [] f = "fatigue_after_sleep" -> {In.rarely}
                [] f = "fruit_veggie_servings" -> {In.n3, In.n21}
                [] f = "sugary_drinks_snacks" -> {In.no}
                [] f = "exercise_days" -> {In.n4}
                [] f = "breaks_from_sitting" -> {In.Yes}
                [] f = "sleep_hours" -> {In.n7}
                [] f = "wake_refreshed" -> {In.often}
                [] f = "stress_anxiety" -> {In.sometimes}
                [] f = "relaxation_techniques" -> {In.yes}
                [] f = "alcohol_drinks" -> {In.n2}
                [] f = "headaches_body_aches" -> {In.rarely}
                [] OTHER -> {In.no}
         [] step.flow = "fitness" ->
              CASE f = "fitness_goal" -> {In.weight_loss, In.abc}
                [] f = "activity_level" -> {In.beginner}
                [] f = "available_days" -> {In.n3}
                [] OTHER -> {In.n30, In.n5}
         [] step.flow = "meal" ->
              CASE f = "dietary_preference" -> {In.vegan}
                [] f = "health_goal" -> {In.weight_loss}
                [] OTHER -> {In.n3, In.n6}
         [] step.flow = "cycle_tracking" ->
              CASE f = "last_period_date" -> {In.d0401, In.d0320, In.d0601}
                [] OTHER -> {In.n28, In.n20}
         [] step.flow = "medication_setup" ->
              CASE f = "medication_name" -> {In.Ibuprofen, In.empty}
                [] f = "dosage" -> {In.mg200}
                [] f = "schedule_time" -> {In.t0800, In.t2500}
                [] OTHER -> {In.Daily, In.MonSpaceWed, In.funday}

Scenarios ==
    {"newcomer", "onboard", "diagnose", "assess", "plans", "cycle", "medication", "ask", "burst",
     "pair", "hurry", "rush", "replan", "refill"}

\* the users who write in a scenario
Senders(s) == IF s = "pair" THEN Users ELSE {UserList[1]}

\* in the burst scenario the user writes again without waiting for the reply, in the hurry
\* and rush scenarios once the last question of the flow is answered; in the others a user
\* waits for the reply before writing again
Hurried == {"hurry", "rush"}
Patient(s) == s \notin {"burst"} \cup Hurried

\* the flows whose questions the user of a scenario answers
Answered(s) ==
    CASE s \in {"onboard", "hurry"} -> {"onboarding"}
      [] s = "diagnose" -> {"diagnosing"}
      [] s = "assess" -> {"assessing"}
      [] s = "plans" -> {"fitness", "meal"}
      [] s = "replan" -> {"fitness"}
      [] s \in {"cycle", "rush"} -> {"cycle_tracking"}
      [] s \in {"medication", "refill"} -> {"medication_setup"}
      [] s \in {"burst", "pair"} -> {"meal"}
      [] OTHER -> {}

\* the commands the user of a scenario sends, in any state
Commands(s) ==
    CASE s = "newcomer" ->
            {In.start, In.diagnose, In.assessment, In.fitness, In.meal, In.cycle, In.medication,
             In.askDiet}
      [] s = "onboard" -> {In.start, In.help, In.Cancel, In.diagnose}
      [] s = "diagnose" -> {In.diagnose, In.cancel, In.start}
      [] s = "assess" -> {In.assessment}
      [] s = "plans" -> {In.fitness, In.meal}
      [] s = "cycle" -> {In.cycle, In.diagnose}
      [] s = "medication" -> {In.medication}
      [] s = "ask" -> {In.ask, In.askDiet, In.start, In.abc}
      [] s = "burst" -> {In.meal, In.cancel}
      [] s = "pair" -> {In.meal}
      [] s = "hurry" -> {In.start}
      [] s = "rush" -> {In.cycle}
      [] s = "replan" -> {In.fitness}
      [] s = "refill" -> {In.medication}

\* the rows per user and table a scenario starts with, written in an earlier life of the process
Archived(s) == IF s = "replan" THEN 1 ELSE 0

\* a further record of the user or job fits the bounds
Room(u, st) ==
    /\ BagCardinality(jobs) < MaxJobs
    /\ st.state \in {"cycle_tracking", "medication_setup"}
         \/ Len(db[TableOf(st.state)][u]) < MaxRecords + Archived(sc)

\* the further answers of a user who has a reminder armed and changes its time
Revisions(step) ==
    IF step.flow = "medication_setup" /\ step.field = "schedule_time" /\ jobs # EmptyBag
    THEN {In.t2130} ELSE {}

\* what the user may write next, given the session the store holds
Offered(u) ==
    LET st == SessionOf(userStates, heap, u)
    IN Commands(sc) \cup
       CASE st.state = "awaiting_tnc_response" -> {In.accept, In.deny, In.abc}
         [] st.state = "awaiting_assessment_choice" ->
              {In.now, In.never, In.abc}
                \cup (IF BagCardinality(jobs) < MaxJobs THEN {In.later} ELSE {})
         [] st.state = "cycle_update_choice" -> {In.yes, In.no, In.abc}
         [] st.state = "medication_choice" ->
              IF sc = "refill" THEN {In.update, In.abc} ELSE {In.add, In.update, In.abc}
         [] st.state = "medication_select_update" -> {In.n0, In.n1, In.n2, In.n3, In.abc}
         [] st.state \in StepFlows \cap Answered(sc) ->
              LET steps == StepsOf(st.state, st.data)
              IN IF st.step >= Len(steps) THEN (IF Room(u, st) THEN {In.abc} ELSE {})
                 ELSE IF st.step = Len(steps) - 1 /\ ~Room(u, st)
                 THEN {a \in Answers(steps[st.step + 1]) :
                          validate(steps[st.step + 1], trim(toLowerCase(a)), clock) # Null}
                 ELSE IF sc \in Hurried \cup {"refill"}
                 THEN {a \in Answers(steps[st.step + 1]) :
                          validate(steps[st.step + 1], trim(toLowerCase(a)), clock) = Null}
                 ELSE Answers(steps[st.step + 1]) \cup Revisions(steps[st.step + 1])
         [] OTHER -> {}


-----------------------------------------------------------------------------
(* Actions *)

Rest == <<clock, ticks, sc, quiz, quizScore, edits>>

\* whether an awaited call resolves; calls reject in the scenarios with one handler at a
\* time, but for those that follow one path to its end (replan, refill)
Outcomes == IF sc \in {"burst", "pair", "replan", "refill"} \cup Hurried THEN {TRUE} ELSE BOOLEAN

\* the session the store holds for u is a flow whose questions are all answered
Exhausted(u) ==
    LET st == SessionOf(userStates, heap, u)
    IN st.state \in StepFlows /\ st.step >= Len(StepsOf(st.state, st.data))

\* the INSERT of saveUserProfile for a user who has a users row already: it adds a second
\* row, or is rejected where the table has a unique key on whatsapp_id
ProfileOutcomes(i) ==
    IF handlers[i].flow = "onboarding" /\ Len(db["users"][handlers[i].user]) > 0
    THEN BOOLEAN ELSE Outcomes

\* client.on('message', ...): the handler runs to its first await
Receive(u, body) ==
    /\ u \in Senders(sc)
    /\ Len(handlers) < MaxHandlers
    /\ Patient(sc) => \A i \in DOMAIN handlers : handlers[i].user # u
    /\ sc \in Hurried => (handlers = <<>> \/ Exhausted(u))
    /\ body \in Offered(u)
    /\ Commit(Len(handlers) + 1, Dispatch(Arrive(u, body), clock), "receive", FALSE)
    /\ UNCHANGED Rest

\* await isUserOnboarded(userId) resolves or rejects
IsUserOnboardedReturns(i) ==
    /\ Waiting(i, "isUserOnboarded")
    /\ \E ok \in Outcomes :
         Commit(i, IF ok THEN AfterOnboardedCheck(Machine(i), isUserOnboarded(Machine(i)))
                   ELSE Throw(Machine(i)), "resume", FALSE)
    /\ UNCHANGED Rest

\* await getUserDetails(userId) resolves or rejects
GetUserDetailsReturns(i) ==
    /\ Waiting(i, "getUserDetails")
    /\ \E ok \in Outcomes :
         Commit(i, IF ok THEN AfterUserDetails(Machine(i), db["users"][handlers[i].user])
                   ELSE Throw(Machine(i)), "resume", FALSE)
    /\ UNCHANGED Rest

\* await getMenstrualCycle(userId) resolves or rejects
GetMenstrualCycleReturns(i) ==
    /\ Waiting(i, "getMenstrualCycle")
    /\ \E ok \in Outcomes :
         Commit(i, IF ok THEN AfterMenstrualCycle(Machine(i), getMenstrualCycle(Machine(i)))
                   ELSE Throw(Machine(i)), "resume", FALSE)
    /\ UNCHANGED Rest

\* await getMedicationReminders(userId) resolves or rejects
GetMedicationRemindersReturns(i) ==
    /\ Waiting(i, "getMedicationReminders")
    /\ \E ok \in Outcomes :
         Commit(i, IF ok THEN AfterMedicationReminders(Machine(i), getMedicationReminders(Machine(i)))
                   ELSE Throw(Machine(i)), "resume", FALSE)
    /\ UNCHANGED Rest

\* await answerHealthQuestion(question) resolves with a text or null; it never rejects
AnswerHealthQuestionReturns(i) ==
    /\ Waiting(i, "answerHealthQuestion")
    /\ \E answer \in {Null, Generated} :
         Commit(i, AfterAnswer(Machine(i), answer), "resume", FALSE)
    /\ UNCHANGED Rest

\* the text-generation call of a finalization resolves with a text or null; it never rejects
TextGenReturns(i) ==
    /\ Waiting(i, "textgen")
    /\ \E result \in {Null, Generated} :
         Commit(i, AfterTextGen(Machine(i), result), "resume", FALSE)
    /\ UNCHANGED Rest

\* the save call of a finalization resolves or rejects
SaveReturns(i) ==
    /\ Waiting(i, "save")
    /\ \E ok \in ProfileOutcomes(i) :
         Commit(i, IF ok THEN AfterSave(Machine(i), clock) ELSE Throw(Machine(i)), "resume", FALSE)
    /\ UNCHANGED Rest

\* the last statement of an upsert resolves or rejects
WriteReturns(i) ==
    /\ Waiting(i, "write")
    /\ \E ok \in Outcomes :
         Commit(i, IF ok THEN AfterWrite(Machine(i), clock) ELSE Throw(Machine(i)), "resume", FALSE)
    /\ UNCHANGED Rest

\* await message.reply(...) inside try resolves (the reply is delivered) or rejects
ReplyReturns(i) ==
    /\ Waiting(i, "reply")
    /\ \E ok \in Outcomes :
         Commit(i, IF ok THEN AfterReply(Machine(i)) ELSE ReplyFailed(Machine(i)), "reply", ok)
    /\ UNCHANGED Rest

\* await message.reply(...) of the catch block resolves or rejects
CatchReturns(i) ==
    /\ Waiting(i, "catch")
    /\ \E ok \in Outcomes : Commit(i, AfterCatch(Machine(i), ok), "catch", ok)
    /\ UNCHANGED Rest

\* an armed job fires: a one-shot job once its instant is reached, a recurring job at an
\* instant its rule matches, which takes time to pass
Fire(job) ==
    /\ BagIn(job, jobs)
    /\ IF job.once THEN job.at <= clock ELSE ticks > 0
    /\ \E ok \in BOOLEAN :
         /\ jobs' = Invoked(jobs, job, ok)
         /\ ev' = [NoEvent EXCEPT !.type = "fire", !.job = job, !.now = clock,
                                  !.failed = ~ok,
                                  !.out = IF ok THEN Callback(job, db) ELSE NoMessage,
                                  !.sent = ok /\ Callback(job, db) # NoMessage,
                                  !.armed = BagToSet(jobs' (-) jobs),
                                  !.lost = BagToSet(jobs (-) jobs') \ {job}]
    /\ UNCHANGED <<userStates, heap, handlers, db, clock, ticks, sc, quiz, quizScore, edits>>

TickHours == 48

\* time passes; the clock is read by the validators, the scheduler and armed jobs
Tick ==
    /\ ticks < MaxTicks
    /\ jobs # EmptyBag
    /\ clock' = clock + TickHours
    /\ ticks' = ticks + 1
    /\ ev' = [NoEvent EXCEPT !.type = "tick", !.now = clock']
    /\ UNCHANGED <<userStates, heap, handlers, db, jobs, sc, quiz, quizScore, edits>>


-----------------------------------------------------------------------------
(* Initial states *)

\* what the handler stores for a raw answer (line 817)
Stored(raw) == trim(toLowerCase(raw))

\* the answers of a completed onboarding
ProfileData(sex, cycleType) ==
    LET base == [f \in {ONBOARDING_STEPS[i].field : i \in 1..Len(ONBOARDING_STEPS)} |->
                    CASE f = "name" -> Stored(In.JanePadded)
                      [] f = "age" -> Stored(In.n29)
                      [] f = "sex" -> Stored(sex)
                      [] f = "height_cm" -> Stored(In.n165)
                      [] f = "weight_kg" -> Stored(In.n60)
                      [] f = "location" -> Stored(In.Boston)
                      [] OTHER -> Stored(In.none)]
    IN IF Stored(sex) = S.female THEN Put(base, "menstrual_cycle_type", Stored(cycleType))
       ELSE base

WithProfile(sex, cycleType) ==
    [EmptyDb EXCEPT !["users"] =
        [u \in Users |-> <<Row(ProfileData(sex, cycleType), ColumnsOf("users"))>>]]

CycleRow ==
    [last_period_date |-> Stored(In.d0320), average_cycle_length |-> Stored(In.n28),
     predicted_next_period |-> calculateNextPeriod(Stored(In.d0320), Stored(In.n28))]

MedicationRow ==
    [medication_name |-> Stored(In.Ibuprofen), dosage |-> Stored(In.mg200),
     schedule_time |-> Stored(In.t0800), days_of_week |-> Stored(In.Daily)]

\* a second reminder of the user, saved before the process started
OtherMedicationRow ==
    [medication_name |-> Stored(In.Aspirin), dosage |-> Stored(In.mg200),
     schedule_time |-> Stored(In.t2130), days_of_week |-> Stored(In.MonWed)]

\* a fitness plan for another goal, saved before the process started
FormerPlan ==
    [fitness_goal |-> S.muscle_gain, activity_level |-> Stored(In.beginner),
     available_days |-> Stored(In.n3), available_minutes |-> Stored(In.n30),
     fitness_plan |-> Generated]

\* the tables a scenario starts from
InitialTables(s) ==
    CASE s \in {"newcomer", "onboard", "hurry"} -> {EmptyDb}
      [] s = "cycle" ->
            {WithProfile(In.Female, In.regular), WithProfile(In.Female, In.none),
             WithProfile(In.male, In.none),
             [WithProfile(In.Female, In.regular) EXCEPT
                 !["menstrual_cycles"] = [u \in Users |-> <<CycleRow>>]]}
      [] s = "rush" -> {WithProfile(In.Female, In.regular)}
      [] s = "replan" ->
            {[WithProfile(In.male, In.none) EXCEPT
                 !["fitness_plans"] = [u \in Users |-> <<FormerPlan>>]]}
      [] s = "refill" ->
            {[WithProfile(In.male, In.none) EXCEPT
                 !["medication_reminders"] =
                     [u \in Users |-> <<MedicationRow, OtherMedicationRow>>]]}
      [] s = "medication" ->
            {WithProfile(In.male, In.none),
             [WithProfile(In.male, In.none) EXCEPT
                 !["medication_reminders"] = [u \in Users |-> <<MedicationRow>>]]}
      [] OTHER -> {WithProfile(In.male, In.none)}

\* the process starts on 2025-04-24 at 12:00
StartClock == DaysFromCivil(2025, 4, 24) * HoursPerDay + 12

\* a completed questionnaire from sixteen raw answers
Questionnaire(raw) ==
    [f \in {ASSESSMENT_STEPS[i].field : i \in 1..Len(ASSESSMENT_STEPS)} |->
        Stored(raw[CHOOSE i \in 1..Len(ASSESSMENT_STEPS) : ASSESSMENT_STEPS[i].field = f])]

TypicalAnswers ==
    Questionnaire(<<In.good, In.rarely, In.n3, In.no, In.n4, In.Yes, In.n7, In.often,
                    In.sometimes, In.yes, In.no, In.no, In.no, In.n2, In.rarely, In.no>>)
BestAnswers ==
    Questionnaire(<<In.excellent, In.never, In.n5, In.no, In.n5, In.yes, In.n8, In.often,
                    In.never, In.yes, In.no, In.no, In.no, In.n0, In.never, In.no>>)
WorstAnswers ==
    Questionnaire(<<In.poor, In.often, In.n0, In.yes, In.n0, In.no, In.n3, In.never,
                    In.often, In.no, In.yes, In.yes, In.yes, In.n25, In.often, In.yes>>)

Init ==
    /\ sc \in Scenarios
    /\ userStates = [u \in Users |-> NoRef]
    /\ heap = [r \in Refs |-> Free]
    /\ handlers = <<>>
    /\ db \in InitialTables(sc)
    /\ jobs = EmptyBag
    /\ clock = StartClock
    /\ ticks = 0
    /\ ev = NoEvent
    /\ quiz = TypicalAnswers
    /\ quizScore = calculateHealthScore(quiz)
    /\ edits = 0

Next ==
    \/ \E u \in Users : \E body \in Offered(u) : Receive(u, body)
    \/ \E i \in 1..MaxHandlers : IsUserOnboardedReturns(i)
    \/ \E i \in 1..MaxHandlers : GetUserDetailsReturns(i)
    \/ \E i \in 1..MaxHandlers : GetMenstrualCycleReturns(i)
    \/ \E i \in 1..MaxHandlers : GetMedicationRemindersReturns(i)
    \/ \E i \in 1..MaxHandlers : AnswerHealthQuestionReturns(i)
    \/ \E i \in 1..MaxHandlers : TextGenReturns(i)
    \/ \E i \in 1..MaxHandlers : SaveReturns(i)
    \/ \E i \in 1..MaxHandlers : WriteReturns(i)
    \/ \E i \in 1..MaxHandlers : ReplyReturns(i)
    \/ \E i \in 1..MaxHandlers : CatchReturns(i)
    \/ \E job \in BagToSet(jobs) : Fire(job)
    \/ Tick

Spec == Init /\ [][Next]_vars


-----------------------------------------------------------------------------
(* The score calculator on its own: a completed questionnaire whose answers *)
(* are replaced, one at a time, by answers the step's validator accepts.    *)

QuizPool ==
    {In.excellent, In.good, In.fair, In.poor, In.often, In.sometimes, In.rarely, In.never,
     In.yes, In.no, In.Yes, In.days3, In.abc, In.n0, In.n1, In.n2, In.n3, In.n4, In.n5,
     In.n7, In.n8, In.n9, In.n11, In.n14, In.n15, In.n25, In.n101}

InitScore ==
    /\ sc = "assess"
    /\ userStates = [u \in Users |-> NoRef]
    /\ heap = [r \in Refs |-> Free]
    /\ handlers = <<>>
    /\ db = WithProfile(In.male, In.none)
    /\ jobs = EmptyBag
    /\ clock = StartClock
    /\ ticks = 0
    /\ ev = NoEvent
    /\ quiz \in {TypicalAnswers, BestAnswers, WorstAnswers}
    /\ quizScore = calculateHealthScore(quiz)
    /\ edits = 0

\* lines 1212-1218 and 1291-1293: an accepted answer is stored, and the score is computed
\* from the stored answers
AnswerQuiz(i, raw) ==
    /\ edits < MaxEdits
    /\ validate(ASSESSMENT_STEPS[i], Stored(raw), clock) = Null
    /\ quiz' = Put(quiz, ASSESSMENT_STEPS[i].field, Stored(raw))
    /\ quizScore' = calculateHealthScore(quiz')
    /\ edits' = edits + 1
    /\ UNCHANGED <<userStates, heap, handlers, db, jobs, clock, ticks, ev, sc>>

NextScore == \E i \in 1..Len(ASSESSMENT_STEPS) : \E raw \in QuizPool : AnswerQuiz(i, raw)

SpecScore == InitScore /\ [][NextScore]_vars


-----------------------------------------------------------------------------
(* Properties.  ev describes the step just taken: its kind, the session the *)
(* store held before it, the handler after it, the jobs armed and dropped   *)
(* and the tables written.                                                  *)

HandlerStep == ev.type \in {"receive", "resume", "reply", "catch"}

\* the session the store holds for the user of the step just taken
After == SessionOf(userStates, heap, ev.h.user)

\* the handler of the step just taken has returned
Returned == HandlerStep /\ ev.h.pc = "done"

\* C1: for one user, a handler's session read, collaborator calls and final write are never
\* interleaved with another handler of that user: no second message of the user is
\* processed while a first is suspended on a text-generation, persistence or reply call.
C1_HandlersOfAUserNeverInterleave ==
    \A i, j \in DOMAIN handlers : i # j => handlers[i].user # handlers[j].user

\* C2: every session of a step-based flow has 0 <= step <= the length of its step list (10 or
\* 11 for onboarding, by the sex answer), and across a handler step the step of the stored
\* session decreases only when a launch command enters the flow anew (step 0, no answers)
\* or the session leaves the flow.
C2_StepInRangeAndNeverDecreases ==
    /\ \A r \in Refs :
          heap[r].state \in StepFlows =>
             heap[r].step \in 0..Len(StepsOf(heap[r].state, heap[r].data))
    /\ (HandlerStep /\ ev.before.state \in StepFlows /\ After.state = ev.before.state
           /\ After.step < ev.before.step)
         => (After.step = 0 /\ After.data = EmptyData /\ ev.h.cmd \in LaunchCommands)

\* C2 witness: a flow whose steps were all answered is entered anew, and its step is 0 again
C2_ExhaustedFlowReentered ==
    /\ HandlerStep /\ ev.before.state \in StepFlows
    /\ ev.before.step = Len(StepsOf(ev.before.state, ev.before.data))
    /\ After.state = ev.before.state /\ After.step = 0

\* the message of the step just taken is an answer to a pending question of a flow
AnswersStep ==
    /\ ev.type = "receive" /\ ev.before.state \in StepFlows
    /\ ev.h.cmd = <<>> /\ ev.h.msg \notin {S.help, S.cancel}
    /\ ev.before.step < Len(StepsOf(ev.before.state, ev.before.data))

AnsweredStep == StepsOf(ev.before.state, ev.before.data)[ev.before.step + 1]

\* C3: when a step's validator rejects the input, the reply is that step's error text and
\* the session (state, step, answers) is unchanged, so that the same input is rejected the
\* same way however often it is sent; an accepted input is stored and advances the step by one.
C3_RejectedInputChangesNothing ==
    AnswersStep =>
       IF validate(AnsweredStep, ev.h.msg, ev.now) # Null
       THEN /\ ev.h.pc = "reply" /\ ev.h.text = ErrorText(AnsweredStep)
            /\ After = ev.before /\ ev.armed = {} /\ ev.lost = {}
       ELSE /\ After.state = ev.before.state /\ After.step = ev.before.step + 1
            /\ After.data[AnsweredStep.field] = ev.h.msg
            /\ \A f \in DOMAIN ev.before.data \ {AnsweredStep.field} :
                  After.data[f] = ev.before.data[f]

\* C3 witness: at the age step of onboarding the user sends abc
C3_AgeRejected ==
    /\ AnswersStep /\ ev.before.state = "onboarding" /\ AnsweredStep.field = "age"
    /\ ev.h.body = In.abc /\ ev.h.text = ErrorText(ONBOARDING_STEPS[2]) /\ After = ev.before

\* the handler of the step just taken ran a finalization that failed: no generated text,
\* user not found, or the save raised an error
FinalizationFailed ==
    \/ ev.h.fin \in {"nogen", "notfound"}
    \/ ev.h.fin = "running" /\ ev.h.threw

\* C4: whenever a finalization fails (text generation returns nothing, or the persistence
\* call reports not-found or raises), once the apology is sent and the handler has returned
\* the session is Idle with no answers, so the flow cannot be resumed.
C4_FailedFinalizationResetsSession ==
    (Returned /\ FinalizationFailed /\ ev.h.delivered = 1) => After = Initial

\* C5 as stated: after the message that successfully finalizes a flow has been handled,
\* the session is Idle with no answers, onboarding included.
C5_FinalizedFlowEndsIdle ==
    (Returned /\ ev.h.fin = "ok") => After = Initial

\* C5: a successful finalization's last write to the session leaves it without answers: Idle,
\* written after the summary reply, for diagnosis, assessment, fitness, meal, cycle tracking
\* and medication setup; awaiting the assessment choice, written before the completion
\* reply, for onboarding.
C5_FinalizedFlowEndsWithoutAnswers ==
    /\ (Returned /\ ev.h.fin = "ok" /\ ev.h.flow # "onboarding") => After = Initial
    /\ (ev.type = "resume" /\ ev.h.fin = "saved" /\ ev.h.flow = "onboarding")
          => After = Session("awaiting_assessment_choice", EmptyData, NoStep)

\* C5 witness: a diagnosis was saved, its summary sent, and the handler has returned
C5_DiagnosisFinalized ==
    Returned /\ ev.h.fin = "ok" /\ ev.h.flow = "diagnosing" /\ After = Initial

\* C6 as stated: every message, whatever the collaborators answer, gets exactly one reply.
C6_ExactlyOneReply ==
    Returned => ev.h.delivered = 1

\* C6: a handler sends one reply; it sends a second, the failure notice, only after an
\* awaited call raised, and two only when the first send itself was rejected.  At most one
\* reply is delivered, and none only when the transport rejected the last send.
C6_OneReplyUnlessTransportFails ==
    Returned =>
       /\ ev.h.calls \in {1, 2}
       /\ ev.h.calls = 2 => ev.h.threw
       /\ ev.h.delivered = (IF ev.sent THEN 1 ELSE 0)
       /\ ~ev.h.threw => ev.h.delivered = 1

\* C6 witness: the save of a finalization raised, and the failure notice was the one reply
C6_SaveRaisedOneReply ==
    /\ Returned /\ ev.h.fin = "running" /\ ev.h.threw
    /\ ev.h.calls = 1 /\ ev.h.delivered = 1 /\ ev.h.text = <<"sorry">>

\* the subject of a reminder: its user and kind, and for a medication reminder the name
SameSubject(j1, j2) ==
    /\ j1.user = j2.user /\ j1.kind = j2.kind
    /\ j1.kind = "medication" => j1.payload[1] = j2.payload[1]

\* no step but its own firing takes an armed job away
NoReminderLost ==
    /\ ev.lost = {}
    /\ (ev.type = "fire" /\ ~ev.job.once) => BagIn(ev.job, jobs)

PeriodReminderAt ==
    newDate(ev.h.local["predictedNextPeriod"]).val - ReminderLeadDays * HoursPerDay

CycleSaved ==
    ev.type = "resume" /\ ev.from = "write" /\ ev.h.flow = "cycle_tracking" /\ ev.h.fin = "saved"

\* C8: no one-shot job is armed for an instant before the time of arming: the period
\* reminder (predicted date minus 3 days) is armed exactly when its instant is not past,
\* the assessment nudge (+48 hours) and the follow-up (+2 days) lie ahead; a job fires
\* only once its instant is reached.
C8_PastOneShotNeverArmed ==
    /\ \A job \in ev.armed : job.once => job.at >= ev.now
    /\ CycleSaved =>
          ev.armed = (IF PeriodReminderAt < ev.now THEN {}
                      ELSE {OneShot(ev.h.user, "period", PeriodReminderAt,
                                    <<ev.h.local["predictedNextPeriod"]>>)})
    /\ (ev.type = "fire" /\ ev.job.once) => ev.job.at <= ev.now

\* C8 witness: a cycle record whose reminder instant is past was saved, and nothing was armed
C8_PastPeriodReminderSkipped ==
    CycleSaved /\ PeriodReminderAt < ev.now /\ ev.armed = {}

\* the sum of the per-question maxima of the band table
MaxScore == 10 + 6 + 8 + 6 + 8 + 6 + 8 + 6 + 6 + 6 + 6 + 5 + 6 + 6 + 6 + 5

\* C9: for every questionnaire of accepted answers the score is an integer from 0 to the
\* sum of the per-question maxima, 104, which the best answers attain; the same answers
\* always give the same score.
C9_ScoreBoundedAndDeterministic ==
    /\ quizScore \in 0..MaxScore
    /\ MaxScore = 104
    /\ quizScore = calculateHealthScore(quiz)
    /\ quiz = BestAnswers => quizScore = MaxScore
    /\ quiz = WorstAnswers => quizScore = 0

\* C9 witness: answers were replaced and the questionnaire scores the maximum
C9_MaximumScored ==
    edits > 0 /\ quizScore = MaxScore

\* the whole number an accepted numeric answer starts with
Whole(answer) == parseInt(answer).val

\* the points of the band table for frequencies, from the best answer down
Banded(answer, best, second, third) ==
    IF answer = best THEN 6 ELSE IF answer = second THEN 4 ELSE IF answer = third THEN 2 ELSE 0

\* the points of the band table for servings and exercise days
Portions(n) == IF n >= 5 THEN 8 ELSE IF n >= 3 THEN 5 ELSE IF n >= 1 THEN 2 ELSE 0

\* the score of the band table
TableScore(a) ==
      (CASE a["overall_health"] = S.excellent -> 10 [] a["overall_health"] = S.good -> 7
         [] a["overall_health"] = S.fair -> 4 [] OTHER -> 0)
    + Banded(a["fatigue_after_sleep"], S.never, S.rarely, S.sometimes)
    + Portions(Whole(a["fruit_veggie_servings"]))
    + (IF a["sugary_drinks_snacks"] = S.no THEN 6 ELSE 0)
    + Portions(Whole(a["exercise_days"]))
    + (IF a["breaks_from_sitting"] = S.yes THEN 6 ELSE 0)
    + (LET h == Whole(a["sleep_hours"])
       IN IF h \in 7..9 THEN 8 ELSE IF h \in {5, 6, 10, 11} THEN 4 ELSE 0)
    + Banded(a["wake_refreshed"], S.often, S.sometimes, S.rarely)
    + Banded(a["stress_anxiety"], S.never, S.rarely, S.sometimes)
    + (IF a["relaxation_techniques"] = S.yes THEN 6 ELSE 0)
    + (IF a["chronic_conditions"] = S.no THEN 6 ELSE 0)
    + (IF a["family_history"] = S.no THEN 5 ELSE 0)
    + (IF a["smoking_vaping"] = S.no THEN 6 ELSE 0)
    + (LET d == Whole(a["alcohol_drinks"])
       IN IF d = 0 THEN 6 ELSE IF d <= 7 THEN 4 ELSE IF d <= 14 THEN 2 ELSE 0)
    + Banded(a["headaches_body_aches"], S.never, S.rarely, S.sometimes)
    + (IF a["weight_changes"] = S.no THEN 5 ELSE 0)

\* C10: for every questionnaire of accepted answers the score is the sum of the points of
\* the band table; the answers good, rarely, 3, no, 4, yes, 7, often, sometimes, yes, no,
\* no, no, 2, rarely, no score 85.
C10_ScoreIsTableSum ==
    /\ quizScore = TableScore(quiz)
    /\ quiz = TypicalAnswers => quizScore = 85

\* C10 witness: answers were replaced, the last one by 9 hours of sleep, and the table gives 8
C10_NineHoursScored ==
    /\ edits > 0 /\ quiz["sleep_hours"] = In.n9
    /\ quizScore = TableScore(quiz)
    /\ quizScore = TableScore(Put(quiz, "sleep_hours", In.n8))

\* the step just taken is the arrival of a /cancel message
CancelReceived == ev.type = "receive" /\ ev.h.msg = S.cancel

\* C11: the cancel command, in whatever state the session is, leaves the session Idle with no
\* answers and arms or drops no reminder; an Idle session is left as it was and the reply says
\* that there is nothing to cancel, any other session is replaced and the reply confirms the
\* cancellation; when the user's messages are handled one at a time, the session is still
\* Idle once the reply is sent.
C11_CancelLeavesIdle ==
    /\ CancelReceived =>
          /\ After = Initial /\ ev.armed = {} /\ ev.lost = {} /\ ev.wrote = {}
          /\ ev.h.pc = "reply"
          /\ ev.h.text = (IF ev.before.state = "initial" THEN <<"nothing_to_cancel">>
                          ELSE <<"cancelled">>)
          /\ ev.before.state = "initial" => After = ev.before
    /\ (Returned /\ ev.h.msg = S.cancel /\ Patient(sc)) => After = Initial

\* C11 witness: a cancel arrives in the middle of a flow with answers collected
C11_FlowCancelled ==
    /\ CancelReceived /\ ev.before.state \in StepFlows /\ ev.before.data # EmptyData
    /\ After = Initial /\ ev.h.text = <<"cancelled">>

\* the step just taken resumed a handler from the await named pc without an error
Resumed(pc) == ev.type = "resume" /\ ev.from = pc /\ ~ev.h.threw

\* the user of the step just taken has a stored profile
Onboarded == Len(db["users"][ev.h.user]) > 0

StartOfOnboarded == Resumed("isUserOnboarded") /\ ev.h.cmd = S.start /\ Onboarded

\* C12: the start command of an onboarded user changes nothing but for the notice: the
\* session is the same after it as before, in the middle of a flow too.
C12_StartOfOnboardedIsNoOp ==
    StartOfOnboarded => (ev.h.text = <<"already_onboarded">> /\ After = ev.before)

\* the message of the step just taken is no global command: it is handed to the state branches
ForwardedToEngine ==
    ev.type = "receive" /\ ev.h.cmd = <<>> /\ ev.h.msg \notin {S.help, S.cancel}

AwaitingTerms == Session("awaiting_tnc_response", EmptyData, NoStep)

FlowLaunchCommands == LaunchCommands \ {S.start}

\* the stored profile of the user of the step just taken
Profile == db["users"][ev.h.user][1]

\* C14: a flow-launch command (diagnose, assessment, fitness, meal, cycle, medication) of a
\* user without a stored profile is answered with the onboard-first guidance, and a cycle
\* command of a user whose profile is not female or has cycle type none with the
\* not-available guidance; in both cases the session is left exactly as it was, no flow is
\* entered and no reminder is armed.
C14_IneligibleLaunchRejected ==
    /\ (Resumed("isUserOnboarded") /\ ev.h.cmd \in FlowLaunchCommands /\ ~Onboarded) =>
          /\ ev.h.pc = "reply" /\ ev.h.text = <<"onboard_first">>
          /\ After = ev.before /\ ev.armed = {} /\ ev.lost = {} /\ ev.wrote = {}
    /\ (Resumed("getUserDetails") /\ Onboarded
           /\ (Profile["sex"] # S.female \/ Profile["menstrual_cycle_type"] = S.none)) =>
          /\ ev.h.cmd = S.cycle /\ ev.h.pc = "reply" /\ ev.h.text = <<"cycle_ineligible">>
          /\ After = ev.before /\ ev.armed = {} /\ ev.lost = {} /\ ev.wrote = {}

\* C14 witness: in the middle of onboarding, with answers given, the user sends a flow-launch
\* command and the onboarding session is untouched
C14_LaunchBeforeProfile ==
    /\ Resumed("isUserOnboarded") /\ ev.h.cmd \in FlowLaunchCommands /\ ~Onboarded
    /\ ev.before.state = "onboarding" /\ ev.before.data # EmptyData
    /\ ev.h.text = <<"onboard_first">> /\ After = ev.before

\* C15: a message that is no global command, arriving while the session is Idle, is answered
\* with the generic reply pointing to /start and /help at once, without a call to the
\* persistence or text-generation collaborators; the session stays Idle with no answers and
\* no reminder is armed or dropped.
C15_IdleFallbackChangesNothing ==
    /\ (ForwardedToEngine /\ ev.before.state = "initial") =>
          /\ ev.h.pc = "reply" /\ ev.h.text = <<"fallback">>
          /\ ev.before = Initial /\ After = Initial /\ ev.armed = {} /\ ev.lost = {} /\ ev.wrote = {}
    /\ (Returned /\ ev.h.text = <<"fallback">>) =>
          /\ ev.h.cmd = <<>> /\ ev.h.flow = "" /\ ev.h.fin = "none" /\ ev.h.calls = 1
          /\ Patient(sc) => After = Initial

\* C15 witness: an Idle user writes abc; the generic reply is sent and the session is Idle
C15_UnrecognisedWhileIdle ==
    /\ Returned /\ ev.h.body = In.abc /\ ev.h.text = <<"fallback">> /\ ev.sent
    /\ ev.before = Initial /\ After = Initial

\* the step just taken resumed the save of an onboarding whose session the store still holds
ProfileSaved ==
    /\ Resumed("save") /\ ev.h.flow = "onboarding" /\ ev.h.fin = "saved"
    /\ ev.before.state = "onboarding"

\* the fields asked by the ten base steps
BaseFields == {ONBOARDING_STEPS[i].field : i \in 1..Len(ONBOARDING_STEPS)}

\* C16: onboarding asks eleven questions, the ten base ones and then the menstrual cycle
\* type, exactly when the stored sex answer is female, and ten otherwise: the profile is
\* saved when the step reaches that number, with an answer for each question.  When the save
\* succeeds, one row holding all collected answers has been added to the profiles, the one
\* row of the user when messages are handled one at a time; the session is
\* AwaitingAssessmentChoice with no answers and the reply asks now, later or never.
C16_OnboardingLengthFollowsSex ==
    /\ \A r \in Refs :
          (heap[r].state = "onboarding" /\ heap[r].step > Len(ONBOARDING_STEPS))
             => (heap[r].data["sex"] = S.female /\ heap[r].step = Len(ONBOARDING_STEPS) + 1)
    /\ (ev.type = "receive" /\ ev.before.state = "onboarding" /\ ev.h.pc = "save") =>
          /\ After.state = "onboarding"
          /\ After.step = (IF After.data["sex"] = S.female THEN 11 ELSE 10)
          /\ DOMAIN After.data = (IF After.data["sex"] = S.female
                                  THEN BaseFields \cup {"menstrual_cycle_type"} ELSE BaseFields)
    /\ (AnswersStep /\ ev.before.state = "onboarding" /\ ev.h.pc = "reply"
           /\ ev.h.text = PromptText(MENSTRUAL_CYCLE_STEP)) =>
          (After.data["sex"] = S.female /\ After.step = 10)
    /\ ProfileSaved =>
          /\ ev.wrote = {<<"users", ev.h.user>>}
          /\ LET rows == db["users"][ev.h.user]
             IN /\ rows[Len(rows)] = Row(ev.before.data, ColumnsOf("users"))
                /\ \A f \in DOMAIN ev.before.data : rows[Len(rows)][f] = ev.before.data[f]
                /\ Patient(sc) => Len(rows) = 1
          /\ After = Session("awaiting_assessment_choice", EmptyData, NoStep)
          /\ ev.h.pc = "reply" /\ ev.h.text = <<"onboarding_complete">>

\* C16 witness: a user who answered female and then regular to the eleventh question has her
\* profile saved and is asked about the assessment
C16_FemaleProfileSaved ==
    /\ ProfileSaved /\ ev.before.step = 11
    /\ db["users"][ev.h.user][1]["sex"] = S.female
    /\ db["users"][ev.h.user][1]["menstrual_cycle_type"] = S.regular
    /\ After.state = "awaiting_assessment_choice"

\* the cycle record of the user of the step just taken
CycleRecord ==
    LET rows == db["menstrual_cycles"][ev.h.user] IN rows[Len(rows)]

Apr29 == <<"2","0","2","5","-","0","4","-","2","9">>
Apr26Midnight == DaysFromCivil(2025, 4, 26) * HoursPerDay

\* C17: when cycle tracking completes with last period date D and cycle length L, L is
\* within 21..35, the record written holds D, L and the predicted date D + L days, and the
\* one job armed is a one-shot reminder at midnight three days before the predicted date,
\* unless that instant is before the time of arming, when none is armed.  For 2025-04-01
\* and 28 the predicted date is 2025-04-29 and the reminder instant 2025-04-26.
C17_PeriodPredictedAndReminded ==
    CycleSaved =>
       LET D == CycleRecord["last_period_date"]
           L == CycleRecord["average_cycle_length"]
           P == CycleRecord["predicted_next_period"]
           at == newDate(P).val - 3 * HoursPerDay
       IN /\ ev.wrote \subseteq {<<"menstrual_cycles", ev.h.user>>}
          /\ ~isNaN(newDate(D)) /\ parseInt(L).val \in 21..35
          /\ ~isNaN(newDate(P)) /\ newDate(P).val = newDate(D).val + parseInt(L).val * HoursPerDay
          /\ ev.armed = (IF at < ev.now THEN {} ELSE {OneShot(ev.h.user, "period", at, <<P>>)})
          /\ (D = In.d0401 /\ L = In.n28) =>
                (P = Apr29 /\ at = Apr26Midnight /\ (ev.now <= Apr26Midnight => ev.armed # {}))

\* C17 witness: on 2025-04-24 a cycle of 28 days from 2025-04-01 is saved, and the reminder
\* is armed for 2025-04-26
C17_AprilCycleReminded ==
    /\ CycleSaved /\ CycleRecord["last_period_date"] = In.d0401
    /\ CycleRecord["average_cycle_length"] = In.n28
    /\ CycleRecord["predicted_next_period"] = Apr29
    /\ ev.armed = {OneShot(ev.h.user, "period", Apr26Midnight, <<Apr29>>)}

\* the step just taken resumed the save of a diagnosis, which returned true
DiagnosisSaved ==
    Resumed("save") /\ ev.h.flow = "diagnosing" /\ ev.h.fin = "saved"

\* the diagnosis record written last for the user of the step just taken
DiagnosisRecord ==
    LET rows == db["symptoms"][ev.h.user] IN rows[Len(rows)]

FollowUps == {job \in ev.armed : job.kind = "followup"}

\* C18: a follow-up reminder is armed exactly by the step in which a diagnosis is saved
\* (analysis returned, record written) with severity severe, as a one-shot job two days
\* ahead; no other step arms one: not a diagnosis of mild or moderate severity, and not a
\* finalization whose analysis is missing, whose user is not found or whose save raised.
C18_FollowUpOnlyForSevere ==
    /\ FollowUps # {} => DiagnosisSaved
    /\ DiagnosisSaved =>
          /\ ev.wrote = {<<"symptoms", ev.h.user>>}
          /\ DiagnosisRecord["diagnosis"] = Generated
          /\ DiagnosisRecord["severity"] \in {S.mild, S.moderate, S.severe}
          /\ ev.armed = (IF DiagnosisRecord["severity"] = S.severe
                         THEN {OneShot(ev.h.user, "followup", ev.now + 48, <<>>)} ELSE {})
    /\ (HandlerStep /\ ev.h.flow = "diagnosing" /\ ev.h.fin # "saved") => ev.armed = {}

\* C18 witness: a diagnosis of severity Severe is saved and its follow-up is armed
C18_SevereFollowUpArmed ==
    /\ DiagnosisSaved /\ DiagnosisRecord["severity"] = S.severe
    /\ FollowUps = {OneShot(ev.h.user, "followup", ev.now + 48, <<>>)}

\* all that the program holds for user u: the stored session, the handlers in flight with
\* the session objects they hold, the rows of every table, the armed jobs
LocalView(map, hp, hs, tables, js, u) ==
    [session |-> SessionOf(map, hp, u),
     inflight |-> SelectSeq([k \in DOMAIN hs |-> [h |-> [hs[k] EXCEPT !.us = NoRef],
                                                  obj |-> hp[hs[k].us]]],
                            LAMBDA x : x.h.user = u),
     rows |-> [t \in Tables |-> tables[t][u]],
     jobs |-> [j \in {k \in BagToSet(js) : k.user = u} |-> js[j]]]

\* the user a step works for: the sender of the handled message, the addressee of a fired job
Actor(e) ==
    IF e.type \in {"receive", "resume", "reply", "catch"} THEN e.h.user
    ELSE IF e.type = "fire" THEN e.job.user ELSE ""

\* C19: users are independent: a step of a handler of one user, or the firing of a job of
\* one user, in any interleaving with the handlers of another user, changes nothing that
\* the program holds for the other user: not the stored session, not the handlers in flight
\* and the session objects they hold, not the rows, not the armed jobs.  What a user
\* observes therefore follows from that user's own messages and collaborator outcomes.
C19_UsersAreIndependent ==
    [][\A u \in Users :
          Actor(ev') # u =>
             LocalView(userStates', heap', handlers', db', jobs', u)
               = LocalView(userStates, heap, handlers, db, jobs, u)]_vars

\* C19 witness: a handler of one user takes a step while a handler of the other user is
\* suspended, both users being in the middle of the meal flow at different steps
C19_TwoUsersInterleaved ==
    /\ HandlerStep /\ \E i \in DOMAIN handlers : handlers[i].user # ev.h.user
    /\ \A u \in Users : SessionOf(userStates, heap, u).state = "meal"
    /\ SessionOf(userStates, heap, "u1").step # SessionOf(userStates, heap, "u2").step

\* C20: a user's profile is written exactly once, at the completion of onboarding: a user
\* has at most one profile row, and the only step that writes the profiles is the save of an
\* onboarding of a user who had no profile, whatever the user sends and however the
\* messages interleave, also while the profile write is in flight.
C20_ProfileWrittenOnce ==
    \A u \in Users :
       /\ Len(db["users"][u]) <= 1
       /\ <<"users", u>> \in ev.wrote =>
             (Resumed("save") /\ ev.h.flow = "onboarding" /\ ev.h.user = u)

\* C21: a failure inside a fired callback (its send, or its plan look-up, rejects) is caught
\* there: the step changes no session, handler or row and removes no other armed job; a
\* recurring job stays armed as it was, and a failed one-shot job is dropped like a
\* successful one, neither armed again nor tried again.
C21_CallbackFailureContained ==
    [][(ev'.type = "fire" /\ ev'.failed) =>
          /\ jobs' = (IF ev'.job.once THEN jobs (-) SetToBag({ev'.job}) ELSE jobs)
          /\ ev'.out = NoMessage
          /\ UNCHANGED <<userStates, heap, handlers, db>>]_vars

\* C21 witness: the callback of a recurring job failed while another job was armed, and
\* both are armed still
C21_RecurringFailedBesideAnother ==
    /\ ev.type = "fire" /\ ev.failed /\ ~ev.job.once /\ BagIn(ev.job, jobs)
    /\ \E j \in BagToSet(jobs) : j # ev.job

\* C22 as stated: the upserts keep records unique: a user has at most one menstrual-cycle
\* record and at most one medication record per medication name, also when two
\* finalizations of the same user interleave their existence check and their write.
C22_UpsertsKeepRecordsUnique ==
    \A u \in Users :
       /\ Len(db["menstrual_cycles"][u]) <= 1
       /\ \A i, j \in DOMAIN db["medication_reminders"][u] :
             db["medication_reminders"][u][i]["medication_name"]
                = db["medication_reminders"][u][j]["medication_name"] => i = j

\* the flows whose finalization calls the text generation, and the column its result goes to
TextGenFlows == {"diagnosing", "assessing", "fitness", "meal"}
TextColumn(flow) ==
    CASE flow = "diagnosing" -> "diagnosis" [] flow = "assessing" -> "analysis"
      [] flow = "fitness" -> "fitness_plan" [] flow = "meal" -> "meal_plan"

\* the table holding the record a reminder of a kind is armed for; the assessment nudge is
\* armed for a profile
ReminderTable(kind) ==
    CASE kind = "followup" -> "symptoms" [] kind = "fitness" -> "fitness_plans"
      [] kind = "meal" -> "meal_plans" [] kind = "period" -> "menstrual_cycles"
      [] kind = "medication" -> "medication_reminders" [] OTHER -> "users"

\* the persistence call of the handler of the step just taken wrote and reported success
WriteSucceeded == ev.type = "resume" /\ ev.from \in {"save", "write"} /\ ev.h.fin = "saved"

\* C23: one finalization runs in the order text generation, persistence write, reminder
\* arming, summary reply, session reset.  The save is reached, in a flow with a text
\* generation, only from a text generation that returned a text, so every such record holds
\* one.  Rows are written only by a persistence call that reports success, and a finalization
\* arms only in that step, with its summary still to be sent and the reset after it; the step
\* leaves the session as it was, and the step that delivers the summary resets it.  Every
\* armed reminder therefore has a record behind it, and a record is written while the
\* session is in the flow, when the user's messages are handled one at a time.  (Onboarding
\* has no summary and no reset: it moves on to the assessment choice in the step of the write.)
C23_FinalizationInOrder ==
    /\ \A u \in Users : \A flow \in TextGenFlows :
          \A i \in DOMAIN db[TableOf(flow)][u] : db[TableOf(flow)][u][i][TextColumn(flow)] = Generated
    /\ (HandlerStep /\ ev.h.pc = "save" /\ ev.h.flow \in TextGenFlows) => Resumed("textgen")
    /\ (HandlerStep /\ ev.wrote # {}) =>
          WriteSucceeded /\ ev.wrote = {<<TableOf(ev.h.flow), ev.h.user>>}
    /\ (HandlerStep /\ ev.armed # {} /\ ev.h.fin # "none") =>
          /\ WriteSucceeded
          /\ ev.h.pc = "reply" /\ ev.h.delivered = 0 /\ ev.h.after = "reset"
    /\ (WriteSucceeded /\ ev.h.flow # "onboarding") =>
          /\ After = ev.before
          /\ ev.h.pc = "reply" /\ ev.h.text = <<"summary", ev.h.flow>> /\ ev.h.after = "reset"
    /\ (ev.type = "reply" /\ ev.sent /\ ev.h.fin = "ok" /\ ev.h.flow # "onboarding") =>
          Returned /\ After = Initial
    /\ \A job \in BagToSet(jobs) : Len(db[ReminderTable(job.kind)][job.user]) > 0
    /\ (WriteSucceeded /\ Patient(sc)) => ev.before.state = ev.h.flow

\* C23 witness: a generated fitness plan was saved and the daily reminder armed in the same
\* step, with the summary still to be sent and the session still in the fitness flow
C23_FitnessPlanSavedThenArmed ==
    /\ WriteSucceeded /\ ev.h.flow = "fitness"
    /\ ev.wrote = {<<"fitness_plans", ev.h.user>>} /\ ev.armed # {}
    /\ ev.h.pc = "reply" /\ After.state = "fitness"

\* the message of the step just taken is an answer the validator of the pending step accepts
Accepted == AnswersStep /\ validate(AnsweredStep, ev.h.msg, ev.now) = Null

DayNumbers == {<<"0">>, <<"1">>, <<"2">>, <<"3">>, <<"4">>, <<"5">>, <<"6">>}
RuleDays(rule) ==
    IF rule.dayOfWeek = S.star THEN DayNumbers
    ELSE {split(rule.dayOfWeek, ",")[i] : i \in 1..Len(split(rule.dayOfWeek, ","))}

\* the days a user listed in an accepted days_of_week answer, as day-of-week numbers
ListedDays(answer) ==
    IF toLowerCase(answer) = S.daily THEN DayNumbers
    ELSE {dayMap(toLowerCase(trim(split(answer, ",")[i]))) : i \in 1..Len(split(answer, ","))}

\* C25 as stated: for every accepted schedule_time and days_of_week the armed medication
\* reminder is a well-formed recurring rule: its hour and minute are those of the time, and
\* its days are every day for daily and else exactly the listed week days (mon..sun as
\* 1..6, 0), also for a list with spaces around the commas such as 'mon, wed'.
C25_MedicationRuleFiresOnListedDays ==
    /\ \A job \in BagToSet(jobs) :
          job.kind = "medication" =>
             /\ ~job.once /\ ~isNaN(job.rule.hour) /\ ~isNaN(job.rule.minute)
             /\ RuleDays(job.rule) \subseteq DayNumbers
    /\ (WriteSucceeded /\ ev.h.flow = "medication_setup") =>
          \E job \in ev.armed :
             /\ ev.armed = {job} /\ job.kind = "medication"
             /\ job.rule.hour = Number(split(ev.before.data["schedule_time"], ":")[1])
             /\ job.rule.minute = Number(split(ev.before.data["schedule_time"], ":")[2])
             /\ RuleDays(job.rule) = ListedDays(ev.before.data["days_of_week"])

\* the flows whose finalization arms a recurring reminder
RecurringFlows == {"medication_setup", "fitness", "meal"}

\* the rows of user u for the medication called name
MedicationRows(tables, u, name) ==
    {i \in DOMAIN tables["medication_reminders"][u] :
        tables["medication_reminders"][u][i]["medication_name"] = name}

\* C26: the scheduler does not deduplicate: every completed medication, fitness or meal flow
\* adds one recurring job to the armed jobs and takes none away, so completing a flow twice
\* leaves two jobs armed and the job for a medication's former time stays armed beside the
\* one for its new time; the medication table meanwhile holds one row for that name (the
\* user's messages being handled one at a time).
C26_EveryCompletionArmsAnotherJob ==
    [][(ev'.type = "resume" /\ ev'.from \in {"save", "write"} /\ ev'.h.fin = "saved"
          /\ ev'.h.flow \in RecurringFlows) =>
          \E job \in ev'.armed :
             /\ ~job.once /\ job.user = ev'.h.user
             /\ jobs' = jobs (+) SetToBag({job})
             /\ (ev'.h.flow = "medication_setup" /\ Patient(sc)) =>
                   Cardinality(MedicationRows(db', job.user, job.payload[1])) = 1]_vars

\* C26 witness: a medication was set up for 08:00 and updated to 21:30: one row, now with
\* 21:30, and two armed jobs for that medication, one for each time
C26_OldTimeStillArmed ==
    \E j1, j2 \in BagToSet(jobs) :
       /\ j1.kind = "medication" /\ j2.kind = "medication"
       /\ j1.user = j2.user /\ j1.payload[1] = j2.payload[1]
       /\ j1.rule.hour = Num(8) /\ j2.rule.hour = Num(21)
       /\ ev.armed = {j2}
       /\ Len(db["medication_reminders"][j1.user]) = 1
       /\ db["medication_reminders"][j1.user][1]["schedule_time"] = In.t2130

\* the message of the step just taken is the user's answer to the assessment offer
ChoiceReceived == ForwardedToEngine /\ ev.before.state = "awaiting_assessment_choice"

AssessmentNudge == OneShot(ev.h.user, "assessment", ev.now + AssessmentDelayHours, <<>>)

\* C27: awaiting the assessment choice, now starts the assessment (step 0, no answers, the
\* first assessment question as the reply); later arms one one-shot nudge 48 hours ahead and
\* leaves the session Idle; never leaves it Idle and arms nothing; any other message that is
\* not a command is answered with the re-prompt and leaves the session as it was.  No row is
\* written and no job dropped.
C27_AssessmentChoice ==
    ChoiceReceived =>
       /\ ev.h.pc = "reply" /\ ev.wrote = {} /\ ev.lost = {}
       /\ CASE ev.h.msg = S.now ->
                 /\ After = Session("assessing", EmptyData, 0)
                 /\ ev.h.text = PromptText(ASSESSMENT_STEPS[1]) /\ ev.armed = {}
            [] ev.h.msg = S.later ->
                 /\ After = Initial /\ ev.armed = {AssessmentNudge}
                 /\ BagCardinality(jobs) = 1 + BagCardinality(jobs (-) SetToBag({AssessmentNudge}))
            [] ev.h.msg = S.never -> After = Initial /\ ev.armed = {}
            [] OTHER ->
                 /\ After = ev.before /\ ev.armed = {}
                 /\ ev.h.text = <<"reprompt", "awaiting_assessment_choice">>

\* C27 witness: the user answered later, and the nudge for noon two days on is armed
C27_NudgeArmedForLater ==
    /\ ChoiceReceived /\ ev.h.msg = S.later /\ After = Initial
    /\ BagIn(OneShot(ev.h.user, "assessment", StartClock + 48, <<>>), jobs)

\* the user's row of a table that was written last
Newest(table, u) == db[table][u][Len(db[table][u])]

\* the job of the step just taken fired and its callback met no failure
Fired == ev.type = "fire" /\ ~ev.failed

\* C28: a fitness or meal reminder that fires looks the user's plan up then: it sends one
\* message, built from the plan row written last, and nothing if there is no plan.  A
\* period, medication, assessment or follow-up reminder sends the values captured when it
\* was armed (the predicted date; the medication name and dosage; none), whatever the
\* tables hold when it fires.
C28_PlanReadAtFiringOthersCaptured ==
    /\ Fired =>
          CASE ev.job.kind = "fitness" ->
                  IF Len(db["users"][ev.job.user]) = 0 \/ Len(db["fitness_plans"][ev.job.user]) = 0
                  THEN ~ev.sent /\ ev.out = NoMessage
                  ELSE /\ ev.sent
                       /\ ev.out = Message(ev.job, <<Newest("fitness_plans", ev.job.user)["fitness_goal"]>>)
            [] ev.job.kind = "meal" ->
                  IF Len(db["users"][ev.job.user]) = 0 \/ Len(db["meal_plans"][ev.job.user]) = 0
                  THEN ~ev.sent /\ ev.out = NoMessage
                  ELSE /\ ev.sent
                       /\ ev.out = Message(ev.job,
                                           <<Newest("meal_plans", ev.job.user)["dietary_preference"],
                                             Newest("meal_plans", ev.job.user)["health_goal"]>>)
            [] OTHER -> ev.sent /\ ev.out = Message(ev.job, ev.job.payload)
    /\ (ev.type = "fire" /\ ev.failed) => ~ev.sent /\ ev.out = NoMessage
    /\ HandlerStep =>
          \A job \in ev.armed :
             job.payload =
                CASE job.kind = "period" -> <<ev.h.local["predictedNextPeriod"]>>
                  [] job.kind = "medication" ->
                       <<ev.before.data["medication_name"], ev.before.data["dosage"]>>
                  [] OTHER -> <<>>

\* C28 witness: a period reminder fired and announced the date captured at arming, while the
\* cycle record, updated since, predicts another date
C28_CapturedDateSentAfterUpdate ==
    /\ Fired /\ ev.job.kind = "period" /\ ev.sent /\ ev.out.args = ev.job.payload
    /\ Len(db["menstrual_cycles"][ev.job.user]) = 1
    /\ Newest("menstrual_cycles", ev.job.user)["predicted_next_period"] # ev.job.payload[1]

\* C29 as stated: the value stored in the answers for an accepted input is the raw text
\* the user sent, unchanged: the name answer Jane is stored as Jane.
C29_RawTextStored ==
    Accepted => After.data[AnsweredStep.field] = ev.h.body

\* the message of the step just taken found its flow with every question answered: the
\* handler of the last answer went on to the finalization, and this handler runs it again
FinalizedAgain ==
    /\ ev.type = "receive" /\ ev.h.fin = "running"
    /\ ev.before.state \in StepFlows
    /\ ev.before.step >= Len(StepsOf(ev.before.state, ev.before.data))

\* C30 as stated: each traversal of a flow is finalized at most once (one text-generation
\* call, one record, one reminder per launch), also when further messages of the user arrive
\* while the finalization is suspended on a collaborator call.
C30_TraversalFinalizedOnce ==
    ~FinalizedAgain

\* the reply delivered in the step just taken is the prompt of a step of a flow
PromptDelivered ==
    ev.type = "reply" /\ ev.sent /\ Len(ev.h.text) = 3 /\ ev.h.text[1] = "prompt"

\* the stored session waits for the answer to the step whose prompt is text
WaitsFor(st, text) ==
    /\ st.state = text[2]
    /\ st.step >= 0 /\ st.step < Len(StepsOf(st.state, st.data))
    /\ PromptText(StepsOf(st.state, st.data)[st.step + 1]) = text

\* C31 as stated: the last reply sent to a user agrees with the stored session: when the
\* prompt of step k of a flow is delivered (the first prompt of a launch included), the
\* stored session of the user is in that flow at step k; a finalization that completes
\* later does not overwrite a flow launched meanwhile.
C31_LastPromptAgreesWithSession ==
    PromptDelivered => WaitsFor(After, ev.h.text)

\* C32 as stated: the assessment result is displayed, and handed to the text generation,
\* as score/100: for every questionnaire of accepted answers the computed score is at
\* most 100.
C32_ScoreAtMostHundred ==
    quizScore <= 100

\* the fields of the first n steps of a step list
FieldsBefore(steps, n) == {steps[k].field : k \in 1..n}

\* the session waits for the answer to a step of a flow
Midway(st) ==
    st.state \in StepFlows /\ st.step >= 0 /\ st.step < Len(StepsOf(st.state, st.data))

\* the answers are those of the first n steps of the flow, each accepted by its validator
ValidatedAnswers(st, n, today) ==
    LET steps == StepsOf(st.state, st.data)
    IN /\ \A k \in 1..n : /\ Has(st.data, steps[k].field)
                           /\ validate(steps[k], st.data[steps[k].field], today) = Null

\* the user picks a listed reminder in medication_select_update
ReminderSelected ==
    /\ ev.type = "receive" /\ ev.before.state = "medication_select_update"
    /\ ev.h.cmd = <<>> /\ After.state = "medication_setup"

\* the names of the medication records stored for a user
MedicationNames(tables, u) ==
    {tables["medication_reminders"][u][i]["medication_name"] :
        i \in 1..Len(tables["medication_reminders"][u])}

\* C33: a session waiting at step i of a flow holds exactly the answers of steps 0..i-1,
\* each accepted by its validator; so every answer handed to a finalization passed its
\* validator, and on the update path of the medication flow the name the session starts
\* with is the name of a stored medication record.
C33_AnswersAreTheValidatedPrefix ==
    /\ \A u \in Users :
          LET st == SessionOf(userStates, heap, u)
          IN Midway(st) =>
                /\ DOMAIN st.data = FieldsBefore(StepsOf(st.state, st.data), st.step)
                /\ ValidatedAnswers(st, st.step, clock)
    /\ (ev.type = "receive" /\ ev.h.fin = "running") =>
          ValidatedAnswers(After, Len(StepsOf(After.state, After.data)), clock)
    /\ ReminderSelected =>
          /\ After.step = 1 /\ DOMAIN After.data = {"medication_name"}
          /\ After.data["medication_name"] \in MedicationNames(db, ev.h.user)

\* C33 witness: the first listed reminder is picked, and the setup session holds its name
C33_SetupStartsWithStoredName ==
    /\ ReminderSelected /\ ev.h.body = In.n1
    /\ After.data["medication_name"] = db["medication_reminders"][ev.h.user][1]["medication_name"]

\* the states entered only by a user who has completed onboarding
ProfileStates ==
    {"diagnosing", "assessing", "fitness", "meal", "cycle_update_choice", "cycle_tracking",
     "medication_choice", "medication_select_update", "medication_setup",
     "awaiting_assessment_choice"}

\* the user has a stored profile
HasProfile(u) == Len(db["users"][u]) > 0

\* every stored profile of the user is of a female user with a menstrual cycle
HasCycle(u) ==
    \A i \in 1..Len(db["users"][u]) :
        /\ toLowerCase(db["users"][u][i]["sex"]) = S.female
        /\ toLowerCase(db["users"][u][i]["menstrual_cycle_type"]) # S.none

SelectionReceived ==
    /\ ev.type = "receive" /\ ev.before.state = "medication_select_update"
    /\ ev.h.cmd = <<>> /\ ev.h.msg \notin {S.help, S.cancel}

\* the reminders listed to the user of the step just taken
Listed == ev.before.data["existingReminders"]

\* the message is a number of the list
InList(msg) == Ge(parseInt(msg), 1) /\ Le(parseInt(msg), Len(Listed))

\* the rows of medication_reminders of a user
Reminders(u) == db["medication_reminders"][u]

\* a save of the medication flow has just succeeded
MedicationWritten ==
    WriteSucceeded /\ ev.from = "write" /\ ev.h.flow = "medication_setup"

\* C35: on the update path of the medication flow (reminders exist, update, then a number
\* n of the list) the session enters medication_setup at step 1 with medication_name set to
\* the name of the n-th listed reminder and the dosage is asked next, the name is never
\* asked, and completing the flow updates that record, the number of the user's medication
\* records staying the same; a number outside the list or a message that is no number is
\* answered by the re-prompt and changes nothing.
C35_UpdatePathKeepsRecordCount ==
    /\ SelectionReceived =>
          IF InList(ev.h.msg)
          THEN /\ After = Session("medication_setup",
                                  Put(EmptyData, "medication_name",
                                      Listed[parseInt(ev.h.msg).val]["medication_name"]), 1)
               /\ ev.h.pc = "reply" /\ ev.h.text = PromptText(MEDICATION_STEPS[2])
               /\ ev.wrote = {} /\ ev.armed = {} /\ ev.lost = {}
          ELSE /\ After = ev.before
               /\ ev.h.pc = "reply" /\ ev.h.text = <<"reprompt", "medication_select_update">>
               /\ ev.wrote = {} /\ ev.armed = {} /\ ev.lost = {}
    /\ sc = "refill" =>
          /\ \A i \in DOMAIN handlers : handlers[i].text # PromptText(MEDICATION_STEPS[1])
          /\ \A u \in Users :
                /\ Len(Reminders(u)) = 2
                /\ Reminders(u)[1]["medication_name"] = MedicationRow["medication_name"]
                /\ Reminders(u)[2]["medication_name"] = OtherMedicationRow["medication_name"]
          /\ MedicationWritten =>
                \E i \in 1..2 :
                    Reminders(ev.h.user)[i] = Row(ev.before.data, ColumnsOf("medication_reminders"))

\* C35 witness: the second listed reminder was picked and the flow completed: its record
\* holds the new answers, and the user has two records as before
C35_SecondReminderUpdated ==
    /\ sc = "refill" /\ MedicationWritten
    /\ Len(Reminders(ev.h.user)) = 2
    /\ Reminders(ev.h.user)[2] # OtherMedicationRow
    /\ Reminders(ev.h.user)[2] = Row(ev.before.data, ColumnsOf("medication_reminders"))

\* the commands that launch a flow at its first step whenever the user is onboarded
PlainLaunches == {S.diagnose, S.assessment, S.fitness, S.meal}

\* the eligibility check of a launch command sent during a flow has returned true
LaunchedDuringFlow ==
    /\ Resumed("isUserOnboarded") /\ ev.h.cmd \in PlainLaunches /\ Onboarded
    /\ ev.before.state \in StepFlows

\* the step just taken wrote a record or armed a reminder in a finalization
Persisted ==
    /\ ev.type = "resume" /\ ev.from \in {"save", "write"}
    /\ ev.wrote # {} \/ ev.armed # {}

\* C36 as stated: a launch command takes precedence over flow input; sent by an onboarded
\* user during another flow it replaces the session by the new flow at step 0 with no
\* answers, nothing is written and no reminder armed for the flow given up: no finalization
\* writes a record or arms a reminder once its session was replaced by a launched flow.
C36_LaunchAbandonsFlow ==
    /\ (ev.type = "receive" /\ ev.h.msg \in LaunchCommands) =>
          /\ ev.h.pc = "isUserOnboarded" /\ After = ev.before
          /\ ev.wrote = {} /\ ev.armed = {} /\ ev.lost = {}
    /\ LaunchedDuringFlow =>
          /\ After = Session(FlowOfCommand(ev.h.cmd), EmptyData, 0)
          /\ ev.h.text = PromptText(StepsOf(After.state, After.data)[1])
          /\ ev.wrote = {} /\ ev.armed = {} /\ ev.lost = {}
    /\ Persisted => ~Midway(ev.before)

\* the states in which the user is asked to choose
ChoiceStates ==
    {"awaiting_tnc_response", "awaiting_assessment_choice", "cycle_update_choice",
     "medication_choice", "medication_select_update"}

\* the message is one of the replies the choice state st takes
Token(st, msg) ==
    CASE st.state = "awaiting_tnc_response" -> msg \in {S.accept, S.deny}
      [] st.state = "awaiting_assessment_choice" -> msg \in {S.now, S.later, S.never}
      [] st.state = "cycle_update_choice" -> msg \in {S.yes, S.no}
      [] st.state = "medication_choice" -> msg \in {S.add, S.update}
      [] st.state = "medication_select_update" ->
            Ge(parseInt(msg), 1) /\ Le(parseInt(msg), Len(st.data["existingReminders"]))

\* a message that is no command arrives in a choice state
ChoiceMade == ForwardedToEngine /\ ev.before.state \in ChoiceStates

\* the step just taken wrote nothing, armed nothing and cancelled nothing
NothingStored == ev.wrote = {} /\ ev.armed = {} /\ ev.lost = {}

\* C37: in awaiting_tnc_response, awaiting_assessment_choice, cycle_update_choice,
\* medication_choice and medication_select_update a message that is no command and none of
\* the replies the state takes is answered by the re-prompt of the state, and the session,
\* the tables and the armed reminders stay as they are; in cycle_update_choice yes enters
\* cycle_tracking at step 0 and no returns to the initial state, the stored cycle record
\* unmodified.
C37_UnacceptedChoiceChangesNothing ==
    /\ (ChoiceMade /\ ~Token(ev.before, ev.h.msg)) =>
          /\ ev.h.pc = "reply" /\ ev.h.text = <<"reprompt", ev.before.state>>
          /\ After = ev.before /\ NothingStored
    /\ (ev.type \in {"reply", "catch"} /\ Len(ev.h.text) = 2 /\ ev.h.text[1] = "reprompt") =>
          After = ev.before /\ NothingStored
    /\ (ChoiceMade /\ ev.before.state = "cycle_update_choice" /\ ev.h.msg = S.yes) =>
          /\ After = Session("cycle_tracking", EmptyData, 0)
          /\ ev.h.text = PromptText(CYCLE_STEPS[1]) /\ NothingStored
    /\ (ChoiceMade /\ ev.before.state = "cycle_update_choice" /\ ev.h.msg = S.no) =>
          /\ After = Initial /\ ev.h.text = <<"cycle_unchanged">> /\ NothingStored

\* C37 witness: asked whether to update the stored cycle record, the user writes abc
C37_CycleChoiceReprompted ==
    /\ ChoiceMade /\ ev.before.state = "cycle_update_choice" /\ ev.h.body = In.abc
    /\ ev.h.text = <<"reprompt", "cycle_update_choice">>
    /\ After.state = "cycle_update_choice"
    /\ db["menstrual_cycles"][ev.h.user] = <<CycleRow>>

\* the messages a session in a flow still needs before its finalization: length - stepIndex
Remaining(st) == Len(StepsOf(st.state, st.data)) - st.step

\* a handler of user u is in flight on the session the store holds for u
InProgress(u) ==
    \E i \in DOMAIN handlers : handlers[i].user = u /\ handlers[i].us = userStates[u]

\* C38 as stated: no session is stuck in a flow: with accepted inputs and successful
\* collaborators a session in a flow reaches the initial state after at most
\* length - stepIndex further messages, so that a session with every question answered
\* needs no further message: a handler is finalizing it; and a cancel leaves the session in
\* the initial state whatever the collaborators do.
C38_NoSessionStuck ==
    /\ \A u \in Users :
          LET st == SessionOf(userStates, heap, u)
          IN (st.state \in StepFlows /\ Remaining(st) <= 0) => InProgress(u)
    /\ (ev.type = "receive" /\ ev.h.msg = S.cancel) => After = Initial


====
